---- MODULE Spec2Model ----
(***************************************************************************)
(* Stability analysis of evaluation score sequences:                       *)
(* TestConversationChainStability.calculate_stability_metrics              *)
(* (tests/llm_evaluation/test_conversation_chains.py) and its copy in      *)
(* tests/llm_evaluation/test_dynamic_conversation_chains.py.               *)
(*                                                                         *)
(* Number model.  A score is a Python float; here it is the integer count  *)
(* of ScoreUnit-ths its decimal literal denotes (7 decimals).  A rounded   *)
(* field round(x, 4) is the integer count of 10^-4 units, round(x, 6) the  *)
(* count of 10^-6 units.  mean, min_score, max_score and score_range are   *)
(* computed as Python computes them, on IEEE 754 binary64 values, and      *)
(* rounded from the float.  variance, std_dev, coefficient_of_variation    *)
(* and trend_slope are computed exactly and rounded half to even; on the   *)
(* inputs drawn below their float error never reaches a rounding           *)
(* boundary.  Intermediate values exceed 32 bits, so they are carried as   *)
(* little-endian sequences of limbs (base Base, and base Limb for floats). *)
(***************************************************************************)
EXTENDS Integers, Sequences, FiniteSets, TLC

\* ------------------------------------------------------------------------
\* Exact non-negative integer arithmetic on limb sequences
\* ------------------------------------------------------------------------
Base == 10000

RECURSIVE BigOf(_)
BigOf(n) == IF n = 0 THEN << >> ELSE << n % Base >> \o BigOf(n \div Base)

RECURSIVE BigAddC(_, _, _)
BigAddC(a, b, c) ==
    IF a = << >> /\ b = << >> THEN BigOf(c)
    ELSE LET x == IF a = << >> THEN 0 ELSE Head(a)
             y == IF b = << >> THEN 0 ELSE Head(b)
             t == x + y + c
         IN  << t % Base >> \o BigAddC(IF a = << >> THEN a ELSE Tail(a),
                                       IF b = << >> THEN b ELSE Tail(b),
                                       t \div Base)

BigAdd(a, b) == BigAddC(a, b, 0)

\* a times a single limb m (0 <= m < Base), plus carry c
RECURSIVE BigMulLimb(_, _, _)
BigMulLimb(a, m, c) ==
    IF a = << >> THEN BigOf(c)
    ELSE LET t == Head(a) * m + c
         IN  << t % Base >> \o BigMulLimb(Tail(a), m, t \div Base)

RECURSIVE BigTrim(_)
BigTrim(a) ==
    IF a = << >> THEN a
    ELSE IF a[Len(a)] = 0 THEN BigTrim(SubSeq(a, 1, Len(a) - 1)) ELSE a

RECURSIVE BigMulR(_, _)
BigMulR(a, b) ==
    IF b = << >> THEN << >>
    ELSE BigAdd(BigMulLimb(a, Head(b), 0), << 0 >> \o BigMulR(a, Tail(b)))

BigMul(a, b) == BigTrim(BigMulR(a, b))

\* -1, 0, 1 as a < b, a = b, a > b (both trimmed)
RECURSIVE BigCmpFrom(_, _, _)
BigCmpFrom(a, b, i) ==
    IF i = 0 THEN 0
    ELSE IF a[i] < b[i] THEN -1
    ELSE IF a[i] > b[i] THEN 1
    ELSE BigCmpFrom(a, b, i - 1)

BigCmp(a, b) ==
    IF Len(a) < Len(b) THEN -1
    ELSE IF Len(a) > Len(b) THEN 1
    ELSE BigCmpFrom(a, b, Len(a))

Abs(n) == IF n < 0 THEN -n ELSE n

BigSquare(n) == BigMul(BigOf(Abs(n)), BigOf(Abs(n)))

\* ------------------------------------------------------------------------
\* round(): half to even
\* ------------------------------------------------------------------------
\* round-half-even of num / den, den > 0, num any sign
RoundDiv(num, den) ==
    LET q == num \div den
        r == num % den
    IN  IF 2 * r < den THEN q
        ELSE IF 2 * r > den THEN q + 1
        ELSE IF q % 2 = 0 THEN q ELSE q + 1

\* largest f in lo..hi with f * B <= A  (A, B limb sequences, lo * B <= A)
RECURSIVE BigFloorDiv(_, _, _, _)
BigFloorDiv(A, B, lo, hi) ==
    IF lo = hi THEN lo
    ELSE LET mid == (lo + hi + 1) \div 2
         IN  IF BigCmp(BigMul(BigOf(mid), B), A) <= 0
             THEN BigFloorDiv(A, B, mid, hi)
             ELSE BigFloorDiv(A, B, lo, mid - 1)

\* round-half-even of A / B for limb sequences, result known to be <= hi
BigRoundDiv(A, B, hi) ==
    LET f == BigFloorDiv(A, B, 0, hi)
        c == BigCmp(BigAdd(A, A), BigMul(BigOf(2 * f + 1), B))
    IN  IF c < 0 THEN f
        ELSE IF c > 0 THEN f + 1
        ELSE IF f % 2 = 0 THEN f ELSE f + 1

\* largest f in lo..hi with f * f * B <= A
RECURSIVE BigFloorSqrt(_, _, _, _)
BigFloorSqrt(A, B, lo, hi) ==
    IF lo = hi THEN lo
    ELSE LET mid == (lo + hi + 1) \div 2
         IN  IF BigCmp(BigMul(BigSquare(mid), B), A) <= 0
             THEN BigFloorSqrt(A, B, mid, hi)
             ELSE BigFloorSqrt(A, B, lo, mid - 1)

\* round-half-even of sqrt(A / B), result known to be <= hi
BigRoundSqrt(A, B, hi) ==
    LET f == BigFloorSqrt(A, B, 0, hi)
        c == BigCmp(BigMul(BigOf(4), A), BigMul(BigSquare(2 * f + 1), B))
    IN  IF c < 0 THEN f
        ELSE IF c > 0 THEN f + 1
        ELSE IF f % 2 = 0 THEN f ELSE f + 1

\* ------------------------------------------------------------------------
\* Scores and rounding scales
\* ------------------------------------------------------------------------
\* a float score s is the integer s * ScoreUnit
ScoreUnit == 10000000

\* round(x, 4) and round(x, 6): the result counts 1/Round4Scale, 1/Round6Scale
Round4Scale == 10000
Round6Scale == 1000000

Unit4 == ScoreUnit \div Round4Scale
Unit6 == ScoreUnit \div Round6Scale

\* float('inf'): greater than every finite value
Infinity == 2147483647

\* ------------------------------------------------------------------------
\* Python floats: IEEE 754 binary64, round to nearest, ties to even
\* ------------------------------------------------------------------------
\* A float x >= 0 is carried as the integer x * Limb^FracLimbs, written as a
\* little-endian sequence of limbs in base Limb = 2^LimbBits.  Every score
\* and every sum of scores of the model is a whole number of that unit.
LimbBits == 12
Limb == 4096
FracLimbs == 8

\* significant bits of a binary64
MantissaBits == 53

RECURSIVE Pow2(_)
Pow2(n) == IF n = 0 THEN 1 ELSE 2 * Pow2(n - 1)

RECURSIVE BinOf(_)
BinOf(n) == IF n = 0 THEN << >> ELSE << n % Limb >> \o BinOf(n \div Limb)

RECURSIVE BinToInt(_)
BinToInt(a) == IF a = << >> THEN 0 ELSE Head(a) + Limb * BinToInt(Tail(a))

RECURSIVE BinAddC(_, _, _)
BinAddC(a, b, c) ==
    IF a = << >> /\ b = << >> THEN BinOf(c)
    ELSE LET x == IF a = << >> THEN 0 ELSE Head(a)
             y == IF b = << >> THEN 0 ELSE Head(b)
             t == x + y + c
         IN  << t % Limb >> \o BinAddC(IF a = << >> THEN a ELSE Tail(a),
                                       IF b = << >> THEN b ELSE Tail(b),
                                       t \div Limb)

\* a - b - c for a >= b + c
RECURSIVE BinSubC(_, _, _)
BinSubC(a, b, c) ==
    IF a = << >> THEN << >>
    ELSE LET y == IF b = << >> THEN 0 ELSE Head(b)
             t == Head(a) - y - c
         IN  << t % Limb >> \o BinSubC(Tail(a),
                                       IF b = << >> THEN b ELSE Tail(b),
                                       IF t < 0 THEN 1 ELSE 0)

\* a times m plus c, for a small m
RECURSIVE BinMulSmall(_, _, _)
BinMulSmall(a, m, c) ==
    IF a = << >> THEN BinOf(c)
    ELSE LET t == Head(a) * m + c
         IN  << t % Limb >> \o BinMulSmall(Tail(a), m, t \div Limb)

\* quotient and remainder of a by a small d, from the top limb down
RECURSIVE BinDivSmall(_, _)
BinDivSmall(a, d) ==
    IF a = << >> THEN [q |-> << >>, r |-> 0]
    ELSE LET top == BinDivSmall(Tail(a), d)
             t == top.r * Limb + Head(a)
         IN  [q |-> << t \div d >> \o top.q, r |-> t % d]

RECURSIVE SmallBitLen(_)
SmallBitLen(n) == IF n = 0 THEN 0 ELSE 1 + SmallBitLen(n \div 2)

\* number of significant bits of a trimmed a
BitLen(a) ==
    IF a = << >> THEN 0
    ELSE (Len(a) - 1) * LimbBits + SmallBitLen(a[Len(a)])

\* -1, 0, 1 as the value of the limbs low is below, at, above
\* Limb^Len(low) / 2
HalfCmp(low) ==
    LET n == Len(low)
    IN  IF low[n] < Limb \div 2 THEN -1
        ELSE IF low[n] > Limb \div 2 THEN 1
        ELSE IF \A i \in 1..(n - 1) : low[i] = 0 THEN 0 ELSE 1

\* the binary64 nearest to the real number that lies at A when inexact is
\* FALSE and strictly between A and A + 1 when it is TRUE
RoundToDouble(A, inexact) ==
    LET Q == BigTrim(A)
        s == BitLen(Q) - MantissaBits
    IN  IF s <= 0 THEN Q
        ELSE LET a    == s \div LimbBits
                 b    == s % LimbBits
                 low  == SubSeq(Q, 1, a)
                 kept == BinDivSmall(SubSeq(Q, a + 1, Len(Q)), Pow2(b))
                 c    == IF b = 0 THEN HalfCmp(low)
                         ELSE IF kept.r < Pow2(b - 1) THEN -1
                         ELSE IF kept.r > Pow2(b - 1) THEN 1
                         ELSE IF \A i \in 1..a : low[i] = 0 THEN 0 ELSE 1
                 odd  == kept.q[1] % 2 = 1
                 up   == c > 0 \/ (c = 0 /\ (inexact \/ odd))
                 q    == IF up THEN BinAddC(kept.q, << 1 >>, 0) ELSE kept.q
             IN  BigTrim([i \in 1..a |-> 0] \o BinMulSmall(q, Pow2(b), 0))

\* the float of the decimal literal score / ScoreUnit
FloatOf(score) ==
    LET A  == [i \in 1..FracLimbs |-> 0] \o BinOf(score)
        d4 == BinDivSmall(A, Round4Scale)
        d7 == BinDivSmall(d4.q, Unit4)
    IN  RoundToDouble(d7.q, d4.r # 0 \/ d7.r # 0)

\* x + y, x - y (x >= y) and x / n on floats
FloatAdd(x, y) == RoundToDouble(BinAddC(x, y, 0), FALSE)

FloatSub(x, y) == RoundToDouble(BinSubC(x, y, 0), FALSE)

FloatDiv(x, n) ==
    LET d == BinDivSmall(x, n)
    IN  RoundToDouble(d.q, d.r # 0)

\* sum(scores): the floats are added from the first to the last, starting
\* from the int 0
RECURSIVE FloatSum(_, _)
FloatSum(scores, n) ==
    IF n = 0 THEN << >>
    ELSE LET start == FloatSum(scores, n - 1)
         IN  IF start = << >> THEN FloatOf(scores[n])
             ELSE FloatAdd(start, FloatOf(scores[n]))

\* round(x, 4), counted in 1 / Round4Scale: the nearest decimal to the
\* float, and the even one when the float lies exactly half way
Round4(x) ==
    IF x = << >> THEN 0
    ELSE LET A    == BinMulSmall(x, Round4Scale, 0)
                     \o [i \in 1..FracLimbs |-> 0]
             low  == SubSeq(A, 1, FracLimbs)
             q    == BinToInt(SubSeq(A, FracLimbs + 1, Len(A)))
             c    == HalfCmp(low)
         IN  IF c < 0 THEN q
             ELSE IF c > 0 THEN q + 1
             ELSE IF q % 2 = 0 THEN q ELSE q + 1

\* ------------------------------------------------------------------------
\* calculate_stability_metrics
\* ------------------------------------------------------------------------
\* variant: every metric reads the scores of one and the same key
MetricScores_first_key(all_scores, metric_name) ==
    [t \in 1..Len(all_scores) |->
        all_scores[t][CHOOSE k \in DOMAIN all_scores[1] : TRUE]]

\* scores = [turn_scores[metric_name] for turn_scores in all_scores]
MetricScores(all_scores, metric_name) ==
    [t \in 1..Len(all_scores) |-> all_scores[t][metric_name]]

\* sum(scores), added up by halves
RECURSIVE Sum(_)
Sum(scores) ==
    IF scores = << >> THEN 0
    ELSE IF Len(scores) = 1 THEN scores[1]
    ELSE LET half == Len(scores) \div 2
         IN  Sum(SubSeq(scores, 1, half))
             + Sum(SubSeq(scores, half + 1, Len(scores)))

Min(scores) == CHOOSE x \in {scores[i] : i \in 1..Len(scores)} :
                   \A i \in 1..Len(scores) : x <= scores[i]

Max(scores) == CHOOSE x \in {scores[i] : i \in 1..Len(scores)} :
                   \A i \in 1..Len(scores) : x >= scores[i]

\* (x - mean_score) for x = scores[i], times len(scores) * ScoreUnit
Dev(scores, i) == Len(scores) * scores[i] - Sum(scores)

\* sum((x - mean_score) ** 2 for x in scores), times (len(scores) * ScoreUnit)^2
RECURSIVE SumSqDevFrom(_, _, _)
SumSqDevFrom(scores, lo, hi) ==
    IF lo > hi THEN << >>
    ELSE IF lo = hi THEN BigSquare(Dev(scores, lo))
    ELSE LET mid == (lo + hi) \div 2
         IN  BigAdd(SumSqDevFrom(scores, lo, mid),
                    SumSqDevFrom(scores, mid + 1, hi))

SumSqDev(scores) == BigTrim(SumSqDevFrom(scores, 1, Len(scores)))

Cube(n) == n * n * n

\* variant: the mean is truncated to 4 decimals instead of rounded
mean_score_truncated(scores) == Sum(scores) \div (Len(scores) * Unit4)

\* round(mean_score, 4), mean_score = sum(scores) / len(scores)
mean_score(scores) ==
    Round4(FloatDiv(FloatSum(scores, Len(scores)), Len(scores)))

\* variant: sample variance, divided by len(scores) - 1
variance_sample(scores) ==
    IF Len(scores) = 1 THEN 0
    ELSE BigRoundDiv(SumSqDev(scores),
                     BigMul(BigOf(Len(scores) * Len(scores) * (Len(scores) - 1)),
                            BigMul(BigOf(ScoreUnit), BigOf(Unit4))),
                     2 * Round4Scale)

\* round(variance, 4), variance = sum((x - mean_score) ** 2 ...) / len(scores)
variance(scores) ==
    BigRoundDiv(SumSqDev(scores),
                BigMul(BigOf(Cube(Len(scores))),
                       BigMul(BigOf(ScoreUnit), BigOf(Unit4))),
                Round4Scale)

\* round(std_dev, 4), std_dev = variance ** 0.5
std_dev(scores) ==
    BigRoundSqrt(SumSqDev(scores),
                 BigMul(BigOf(Cube(Len(scores))), BigSquare(Unit4)),
                 Round4Scale)

\* variant: a zero mean gives 0 instead of float('inf')
cv_zero_default(scores) ==
    IF Sum(scores) # 0
    THEN BigRoundSqrt(BigMul(SumSqDev(scores), BigSquare(Round4Scale)),
                      BigMul(BigOf(Len(scores)), BigSquare(Sum(scores))),
                      Round4Scale * Len(scores))
    ELSE 0

\* variant: the zero test is made on the rounded mean
cv_rounded_mean_test(scores) ==
    IF RoundDiv(Sum(scores), Len(scores) * Unit4) # 0
    THEN BigRoundSqrt(BigMul(SumSqDev(scores), BigSquare(Round4Scale)),
                      BigMul(BigOf(Len(scores)), BigSquare(Sum(scores))),
                      Round4Scale * Len(scores))
    ELSE Infinity

\* round(cv, 4), cv = std_dev / mean_score if mean_score != 0 else float('inf')
cv(scores) ==
    IF Sum(scores) # 0
    THEN BigRoundSqrt(BigMul(SumSqDev(scores), BigSquare(Round4Scale)),
                      BigMul(BigOf(Len(scores)), BigSquare(Sum(scores))),
                      Round4Scale * Len(scores))
    ELSE Infinity

\* sum((i - x_mean) * (scores[i] - mean_score) for i in range(n)),
\* times 2 * n * ScoreUnit; i is the 0-based index, x_mean = (n - 1) / 2
RECURSIVE SlopeNumFrom(_, _)
SlopeNumFrom(scores, i) ==
    IF i >= Len(scores) THEN 0
    ELSE (2 * i - (Len(scores) - 1)) * Dev(scores, i + 1)
         + SlopeNumFrom(scores, i + 1)

\* sum((i - x_mean) ** 2 for i in range(n)), times 4
RECURSIVE SlopeDenFrom(_, _)
SlopeDenFrom(n, i) ==
    IF i >= n THEN 0
    ELSE (2 * i - (n - 1)) * (2 * i - (n - 1)) + SlopeDenFrom(n, i + 1)

\* variant: the turns are indexed from the last to the first
slope_reversed(scores) ==
    LET n == Len(scores)
    IN  IF n > 1
        THEN RoundDiv(-2 * SlopeNumFrom(scores, 0),
                      n * Unit6 * SlopeDenFrom(n, 0))
        ELSE 0

\* variant: x_mean = n / 2 in the denominator
slope_xmean_off(scores) ==
    LET n == Len(scores)
    IN  IF n > 1
        THEN RoundDiv(2 * SlopeNumFrom(scores, 0),
                      n * Unit6 * SlopeDenFrom(n + 1, 1))
        ELSE 0

\* round(slope, 6), slope = ... / ... if n > 1 else 0
slope(scores) ==
    LET n == Len(scores)
    IN  IF n > 1
        THEN RoundDiv(2 * SlopeNumFrom(scores, 0),
                      n * Unit6 * SlopeDenFrom(n, 0))
        ELSE 0

\* round(min(scores), 4), round(max(scores), 4)
min_score(scores) == Round4(FloatOf(Min(scores)))
max_score(scores) == Round4(FloatOf(Max(scores)))

\* variant: the range is taken between the rounded extremes
score_range_of_rounded(scores) ==
    RoundDiv(Max(scores), Unit4) - RoundDiv(Min(scores), Unit4)

\* round(max(scores) - min(scores), 4)
score_range(scores) ==
    Round4(FloatSub(FloatOf(Max(scores)), FloatOf(Min(scores))))

\* stability_metrics[metric_name] = {...}
StabilityRecord(scores) ==
    [ mean                     |-> mean_score(scores),
      variance                 |-> variance(scores),
      std_dev                  |-> std_dev(scores),
      coefficient_of_variation |-> cv(scores),
      trend_slope              |-> slope(scores),
      min_score                |-> min_score(scores),
      max_score                |-> max_score(scores),
      score_range              |-> score_range(scores) ]

EmptyMap == [m \in {} |-> 0]

Return(value) == [raised |-> "none", value |-> value]
Raise(exc)    == [raised |-> exc, value |-> EmptyMap]

\* variant: the guard is missing and all_scores[0] fails on the empty list
EmptyResult_IndexError == Raise("IndexError")

\* if not all_scores: return {}
EmptyResult == Return(EmptyMap)

\* variant: the return sits inside the loop, after the first metric
calculate_stability_metrics_first_only(scores_list) ==
    IF scores_list = << >> THEN EmptyResult
    ELSE LET metric_names == DOMAIN scores_list[1]
             first == CHOOSE m \in metric_names : TRUE
         IN  IF \E t \in 1..Len(scores_list) : first \notin DOMAIN scores_list[t]
             THEN Raise("KeyError")
             ELSE Return([m \in {first} |->
                              StabilityRecord(MetricScores(scores_list, m))])

\* variant: a missing key reads as 0.0 (scores.get(metric_name, 0.0))
calculate_stability_metrics_default_score(scores_list) ==
    IF scores_list = << >> THEN EmptyResult
    ELSE LET metric_names == DOMAIN scores_list[1]
             filled == [t \in 1..Len(scores_list) |->
                           [m \in metric_names |->
                               IF m \in DOMAIN scores_list[t]
                               THEN scores_list[t][m] ELSE 0]]
         IN  Return([m \in metric_names |->
                         StabilityRecord(MetricScores(filled, m))])

\* for metric_name in metric_names: ...; return stability_metrics
calculate_stability_metrics(scores_list) ==
    IF scores_list = << >> THEN EmptyResult
    ELSE LET metric_names == DOMAIN scores_list[1]
         IN  IF \E t \in 1..Len(scores_list) :
                    \E m \in metric_names : m \notin DOMAIN scores_list[t]
             THEN Raise("KeyError")
             ELSE Return([m \in metric_names |->
                              StabilityRecord(MetricScores(scores_list, m))])

\* ------------------------------------------------------------------------
\* The chain harness: test_conversation_chain_evaluation
\* ------------------------------------------------------------------------
\* @pytest.mark.parametrize("chain_length", [5, 10, 15, 20])
ChainLengths == {5, 10, 15, 20}

\* len(MATHEMATICAL_SCENARIOS) and len(scenario["conversations"])
ScenarioCount == 3
ConversationCount == 5

\* min(i, 3) previous-turn context lines
ContextWindow == 3

\* variant: the loop stops one turn short (range(length - 1))
generate_conversation_chain_short(length, scenario_index) ==
    [k \in 1..(length - 1) |->
        [ scenario      |-> scenario_index % ScenarioCount,
          base_idx      |-> (k - 1) % ConversationCount,
          follow_up     |-> k - 1 > 0,
          extra_context |-> IF k - 1 < ContextWindow THEN k - 1 ELSE ContextWindow,
          complexity    |-> IF k - 1 >= 10 THEN "advanced"
                            ELSE IF k - 1 >= 5 THEN "rigor" ELSE "plain" ]]

\* for i in range(length): conversation_chain.append((question, answer,
\* extended_context)); entry k is built from the 0-based index i = k - 1
generate_conversation_chain(length, scenario_index) ==
    [k \in 1..length |->
        [ scenario      |-> scenario_index % ScenarioCount,
          base_idx      |-> (k - 1) % ConversationCount,
          follow_up     |-> k - 1 > 0,
          extra_context |-> IF k - 1 < ContextWindow THEN k - 1 ELSE ContextWindow,
          complexity    |-> IF k - 1 >= 10 THEN "advanced"
                            ELSE IF k - 1 >= 5 THEN "rigor" ELSE "plain" ]]

\* getattr(metric, 'name', metric.__class__.__name__) of the six metrics
setup_metrics ==
    << "AnswerRelevancyMetric", "FaithfulnessMetric", "Mathematical_Accuracy",
       "Technical_Depth", "BiasMetric", "ToxicityMetric" >>

MetricNames == {setup_metrics[k] : k \in 1..Len(setup_metrics)}

\* What a metric answers over the turns of a chain of n turns.  The scores
\* come from a language model: each metric follows one of these courses.
Mid(n) == (n + 1) \div 2

ProfileScore(profile, t, n) ==
    CASE profile = "steady"           -> 2000000
      [] profile = "zero"             -> 0
      [] profile = "alt_quarter"      -> IF t % 2 = 1 THEN 3000000 ELSE 5000000
      [] profile = "alt_near_quarter" -> IF t % 2 = 1 THEN 3750200 ELSE 6249800
      [] profile = "spike_wide"       -> IF t = Mid(n) THEN 9500000 ELSE 1000000
      [] profile = "spike_near_wide"  -> IF t = Mid(n) THEN 8999600 ELSE 1000000
      [] profile = "twin_spike"       -> IF t \in {Mid(n), Mid(n) + 1}
                                         THEN 5000000 ELSE 20
      [] OTHER                        -> 0

\* the turn on which the metrics of oracle.failing raise
FailTurn == 3

\* metric.measure(test_case); score = metric.score: either a score, or an
\* exception out of measure() or float(score)
measure(oracle, metric_name, t, n) ==
    IF \/ oracle.profile[metric_name] = "raises"
       \/ metric_name \in oracle.failing /\ t = FailTurn
    THEN [kind |-> "raises", score |-> 0]
    ELSE [kind |-> "score",
          score |-> ProfileScore(oracle.profile[metric_name], t, n)]

SubjectProfiles ==
    { "steady", "zero", "alt_quarter", "alt_near_quarter", "spike_wide",
      "spike_near_wide", "twin_spike", "raises" }
BiasProfiles == {"steady", "zero", "twin_spike", "raises"}
ToxicityProfiles == {"steady", "zero"}

ProfileOracles ==
    { [ profile |-> [m \in MetricNames |->
                        IF m = "AnswerRelevancyMetric" THEN p
                        ELSE IF m = "BiasMetric" THEN q
                        ELSE IF m = "ToxicityMetric" THEN r
                        ELSE "steady"],
        failing |-> {} ] :
      p \in SubjectProfiles, q \in BiasProfiles, r \in ToxicityProfiles }

FailingOracles ==
    { [ profile |-> [m \in MetricNames |-> "steady"], failing |-> F ] :
      F \in SUBSET MetricNames }

Oracles == ProfileOracles \cup FailingOracles

NoOracle == [profile |-> EmptyMap, failing |-> {}]

\* scores[metric_name] = value
Put(scores, metric_name, value) ==
    [k \in DOMAIN scores \cup {metric_name} |->
        IF k = metric_name THEN value ELSE scores[k]]

\* variant: the except branch records no score for the metric
MetricStep_omit_failed(scores, metric_name, outcome) ==
    IF outcome.kind = "score"
    THEN Put(scores, metric_name, outcome.score)
    ELSE scores

\* try: ... scores[metric_name] = float(score)
\* except Exception: scores[metric_name] = 0.0
MetricStep(scores, metric_name, outcome) ==
    IF outcome.kind = "score"
    THEN Put(scores, metric_name, outcome.score)
    ELSE Put(scores, metric_name, 0)

\* for metric in metrics: ...  (the first k metrics); errors counts the
\* ERROR_COUNTER increments of log_metric_evaluation
RECURSIVE EvaluateMetrics(_, _, _)
EvaluateMetrics(metrics, outcomes, k) ==
    IF k = 0 THEN [scores |-> EmptyMap, errors |-> 0]
    ELSE LET before == EvaluateMetrics(metrics, outcomes, k - 1)
             o == outcomes[metrics[k]]
         IN  [ scores |-> MetricStep(before.scores, metrics[k], o),
               errors |-> before.errors + IF o.kind = "score" THEN 0 ELSE 1 ]

\* evaluate_conversation_turn(turn, metrics, turn_logger)
evaluate_conversation_turn(metrics, outcomes) ==
    EvaluateMetrics(metrics, outcomes, Len(metrics))

\* turn_scores[metric_name] fails for some turn
MissingKey(scores_list) ==
    \E t \in 1..Len(scores_list) :
        \E m \in DOMAIN scores_list[1] : m \notin DOMAIN scores_list[t]

\* average_scores[metric_name] = round(avg, 4)
AverageScores(scores_list) ==
    IF scores_list = << >> THEN EmptyMap
    ELSE [m \in DOMAIN scores_list[1] |->
             mean_score(MetricScores(scores_list, m))]

\* score_variance[metric_name] = round(variance, 6)
ScoreVariance(scores_list) ==
    IF scores_list = << >> THEN EmptyMap
    ELSE [m \in DOMAIN scores_list[1] |->
             LET scores == MetricScores(scores_list, m)
             IN  BigRoundDiv(SumSqDev(scores),
                             BigMul(BigOf(Cube(Len(scores))),
                                    BigMul(BigOf(ScoreUnit), BigOf(Unit6))),
                             Round6Scale)]

\* thresholds, in units of 1 / Round4Scale: 0.25, 2.0 and 0.8
StableLimit == 2500
CvLimit == 20000
RangeLimit == 8000

\* if chain_length >= 10
LongChain == 10

\* if metric_name not in ["BiasMetric", "ToxicityMetric"]
LowScoreMetrics == {"BiasMetric", "ToxicityMetric"}

\* variant: a CV equal to the limit still counts as stable
log_framework_stability_inclusive(coefficient_of_variation) ==
    IF coefficient_of_variation <= StableLimit THEN "stable" ELSE "variable"

\* stability_status = "stable" if coefficient_of_variation < 0.25 else "variable"
log_framework_stability(coefficient_of_variation) ==
    IF coefficient_of_variation < StableLimit THEN "stable" ELSE "variable"

\* for metric_name, stability in stability_metrics.items(): log_framework_stability(...)
StabilityLabels(stability_metrics) ==
    [m \in DOMAIN stability_metrics |->
        log_framework_stability(stability_metrics[m].coefficient_of_variation)]

\* assert cv < 2.0 (chain_length >= 10); assert score_range < 0.8
StabilityAssertions(n, stability_metrics) ==
    \A m \in DOMAIN stability_metrics :
        /\ n >= LongChain =>
               stability_metrics[m].coefficient_of_variation < CvLimit
        /\ m \notin LowScoreMetrics =>
               stability_metrics[m].score_range < RangeLimit

\* the assertions that close the test
ChainAssertions(n, turns, scores_list, stability_metrics) ==
    /\ Len(turns) = n
    /\ \A t \in 1..Len(scores_list) : DOMAIN scores_list[t] # {}
    /\ StabilityAssertions(n, stability_metrics)

\* ------------------------------------------------------------------------
\* The dynamic conversation test: _run_dynamic_conversation_test
\* ------------------------------------------------------------------------
\* test_5_, test_10_, test_15_ and test_20_turn_dynamic_conversation, and
\* shorter runs of the same helper
MaxShortRun == 2
DynamicLengths == {5, 10, 15, 20} \cup 1..MaxShortRun

\* len(INITIAL_TOPICS)
TopicCount == 5

\* topic["context"] has three entries; context = context[-5:]
TopicContext == 3
ContextKept == 5

\* context.extend(new_concepts[:2])
ConceptsAdded == 2

\* len(context) when turn k (from 1) is stored
RECURSIVE ContextSize(_)
ContextSize(k) ==
    IF k = 1 THEN TopicContext
    ELSE LET grown == ContextSize(k - 1) + ConceptsAdded
         IN  IF grown > ContextKept THEN ContextKept ELSE grown

\* for turn in range(max_turns): conversation_chain.append((current_question,
\* ai_response, context.copy())); the first question is topic["starter"],
\* each later one is generate_follow_up_question of the previous response
generate_dynamic_conversation(max_turns, topic_index) ==
    [k \in 1..max_turns |->
        [ topic        |-> topic_index % TopicCount,
          question     |-> IF k = 1 THEN "starter" ELSE "follow_up",
          answers_turn |-> k,
          context_size |-> ContextSize(k),
          depth        |-> IF k > 10 THEN "advanced"
                           ELSE IF k > 5 THEN "technical" ELSE "plain" ]]

\* getattr(metric, 'name', metric.__class__.__name__) of the six metrics
setup_dynamic_metrics ==
    << "AnswerRelevancyMetric", "FaithfulnessMetric", "Response_Coherence",
       "Conversational_Flow", "BiasMetric", "ToxicityMetric" >>

DynamicMetricNames ==
    {setup_dynamic_metrics[k] : k \in 1..Len(setup_dynamic_metrics)}

DynamicOracles ==
    { [ profile |-> [m \in DynamicMetricNames |->
                        IF m = "BiasMetric" THEN q ELSE "steady"],
        failing |-> F ] :
      q \in {"steady", "zero"},
      F \in {{}, {"Response_Coherence"}} }

\* variant: every turn is flagged as generated from the previous one
DynamicConversationTurn_all_generated(i, item, n, scores) ==
    [ turn_number             |-> i + 1,
      data                    |-> item,
      generated_from_previous |-> TRUE,
      chain_length            |-> n,
      metrics_scores          |-> scores ]

\* DynamicConversationTurn(turn_number=i + 1, ...,
\*     generated_from_previous=(i > 0), chain_length=chain_length)
DynamicConversationTurn(i, item, n, scores) ==
    [ turn_number             |-> i + 1,
      data                    |-> item,
      generated_from_previous |-> i > 0,
      chain_length            |-> n,
      metrics_scores          |-> scores ]

\* sum(1 for turn in conversation_turns if turn.generated_from_previous)
GeneratedTurns(turns) ==
    Cardinality({k \in 1..Len(turns) : turns[k].generated_from_previous})

\* the assertions that close the dynamic test
DynamicAssertions(n, turns, scores_list, stability_metrics) ==
    /\ Len(turns) = n
    /\ \A t \in 1..Len(scores_list) : DOMAIN scores_list[t] # {}
    /\ GeneratedTurns(turns) = n - 1
    /\ StabilityAssertions(n, stability_metrics)

\* ------------------------------------------------------------------------
\* Inputs: the ScoreSequences handed to calculate_stability_metrics
\* ------------------------------------------------------------------------
MaxLen == 3
MaxPairLen == 2

\* scores in [0, 1]: 0.0, 0.0000001, 0.000021, 0.0000641, 0.8333334.
\* No statistic of a sequence of up to 5 of these values lies exactly half
\* way between two decimals or within float error of such a point, so the
\* exact value and the float round alike.
ScoreValues == {0, 1, 210, 641, 8333334}
PairValues  == {0, 641, 8333334}
MixValues   == {0, 8333334}

Metrics == {"AnswerRelevancyMetric", "BiasMetric"}

SeqsUpTo(S, n) == UNION {[1..k -> S] : k \in 0..n}

\* one metric on every turn
SingleInputs == SeqsUpTo([{"AnswerRelevancyMetric"} -> ScoreValues], MaxLen)

\* two metrics on every turn
PairInputs == SeqsUpTo([Metrics -> PairValues], MaxPairLen)

\* two turns whose key sets may differ
MixScoreSets == UNION {[K -> MixValues] : K \in (SUBSET Metrics) \ {{}}}
MixInputs == [1..2 -> MixScoreSets]

\* metric "A" scoring 0.8, 0.85, 0.75, 0.9, 0.82
ScenarioA ==
    << [A |-> 8000000], [A |-> 8500000], [A |-> 7500000],
       [A |-> 9000000], [A |-> 8200000] >>

\* "Bias" constant at 0.05, "Relevancy" alternating 0.9 / 0.5, 10 turns
ScenarioBiasRelevancy ==
    [t \in 1..10 |-> [Bias |-> 500000,
                      Relevancy |-> IF t % 2 = 1 THEN 9000000 ELSE 5000000]]

Inputs == SingleInputs \cup PairInputs \cup MixInputs
          \cup {ScenarioA, ScenarioBiasRelevancy}

\* scores that read 0.00005, 0.00015, 0.00025, ...: each lies half way
\* between two 4-decimal numbers, and so does the mean of a metric that
\* scores one of them on every turn
MaxTieLen == 3
TieCount == 20

TieValues == {(2 * j + 1) * (Unit4 \div 2) : j \in 0..(TieCount - 1)}

TieInputs ==
    {[t \in 1..n |-> [m \in {"AnswerRelevancyMetric"} |-> v]] :
        n \in 1..MaxTieLen, v \in TieValues}

\* ------------------------------------------------------------------------
\* config.py: a str is the sequence of its characters
\* ------------------------------------------------------------------------
UpperLetters ==
    << "A", "B", "C", "D", "E", "F", "G", "H", "I", "J", "K", "L", "M",
       "N", "O", "P", "Q", "R", "S", "T", "U", "V", "W", "X", "Y", "Z" >>
LowerLetters ==
    << "a", "b", "c", "d", "e", "f", "g", "h", "i", "j", "k", "l", "m",
       "n", "o", "p", "q", "r", "s", "t", "u", "v", "w", "x", "y", "z" >>

\* str.lower() on one character
LowerChar(c) ==
    IF \E k \in 1..Len(UpperLetters) : UpperLetters[k] = c
    THEN LowerLetters[CHOOSE k \in 1..Len(UpperLetters) : UpperLetters[k] = c]
    ELSE c

\* value.lower()
lower(value) == [k \in 1..Len(value) |-> LowerChar(value[k])]

\* ('true', '1', 'yes', 'on')
TrueStrings ==
    { << "t", "r", "u", "e" >>, << "1" >>, << "y", "e", "s" >>, << "o", "n" >> }

\* variant: the value is compared as it is, without lower()
str_to_bool_case_sensitive(value) == value \in TrueStrings

\* return value.lower() in ('true', '1', 'yes', 'on')
str_to_bool(value) == lower(value) \in TrueStrings

\* os.environ: the variables that are set, with their values
AzureKey == "AZURE_OPENAI_API_KEY"
AzureEndpoint == "AZURE_OPENAI_ENDPOINT"
UseOllama == "USE_OLLAMA"

\* os.getenv(var, default)
getenv(env, var, default) == IF var \in DOMAIN env THEN env[var] ELSE default

\* variant: only an unset variable is missing, an empty one is not
IsMissing_unset_only(env, var) == var \notin DOMAIN env

\* not os.getenv(var): unset (None) or empty
IsMissing(env, var) == var \notin DOMAIN env \/ env[var] = << >>

\* one print() call
Line(text, arg) == [text |-> text, arg |-> arg]

\* for var in missing_vars: print(f"   - {var}")
MissingLines(missing_vars) ==
    [k \in 1..Len(missing_vars) |-> Line("missing_var", missing_vars[k])]

\* validate_required_env_vars(required_vars, config_type)
validate_required_env_vars(env, required_vars, config_type) ==
    LET missing_vars == SelectSeq(required_vars, LAMBDA v : IsMissing(env, v))
    IN  IF missing_vars # << >>
        THEN [ value   |-> FALSE,
               output |-> << Line("missing_header", config_type) >>
                           \o MissingLines(missing_vars)
                           \o << Line("hint_create_env_file", ""),
                                 Line("hint_copy_env_example", "") >> ]
        ELSE [ value |-> TRUE, output |-> << >> ]

\* AppConfig.__init__
AppConfig(env) ==
    [use_ollama |-> str_to_bool(getenv(env, UseOllama, << "t", "r", "u", "e" >>))]

\* AzureOpenAIConfig.__init__
AzureOpenAIConfig(env) ==
    [ api_key  |-> getenv(env, AzureKey, << >>),
      endpoint |-> getenv(env, AzureEndpoint, << >>) ]

\* variant: the required variables are checked whatever use_ollama says
AzureOpenAIConfig_from_env_always_validates(env, app_config) ==
    LET required_vars == << AzureKey, AzureEndpoint >>
        valid == validate_required_env_vars(env, required_vars, "Azure OpenAI")
    IN  [ raised   |-> "none",
          value    |-> AzureOpenAIConfig(env),
          calls    |-> << [required_vars |-> required_vars,
                           config_type |-> "Azure OpenAI"] >>,
          output  |-> valid.output
                       \o IF valid.value THEN << >>
                          ELSE << Line("azure_incomplete", ""),
                                  Line("hint_use_ollama", "") >> ]

\* AzureOpenAIConfig.from_env(app_config)
AzureOpenAIConfig_from_env(env, app_config) ==
    IF ~app_config.use_ollama
    THEN LET required_vars == << AzureKey, AzureEndpoint >>
             valid == validate_required_env_vars(env, required_vars,
                                                 "Azure OpenAI")
         IN  [ raised   |-> "none",
               value    |-> AzureOpenAIConfig(env),
               calls    |-> << [required_vars |-> required_vars,
                                config_type |-> "Azure OpenAI"] >>,
               output  |-> valid.output
                            \o IF valid.value THEN << >>
                               ELSE << Line("azure_incomplete", ""),
                                       Line("hint_use_ollama", "") >> ]
    ELSE [ raised  |-> "none",
           value   |-> AzureOpenAIConfig(env),
           calls   |-> << >>,
           output |-> << Line("using_ollama", "") >> ]

\* ------------------------------------------------------------------------
\* Inputs of config.py
\* ------------------------------------------------------------------------
MaxRequired == 2

UpperChar(c) ==
    IF \E k \in 1..Len(LowerLetters) : LowerLetters[k] = c
    THEN UpperLetters[CHOOSE k \in 1..Len(LowerLetters) : LowerLetters[k] = c]
    ELSE c

\* word in every mix of upper and lower case
CaseVariants(word) ==
    { [k \in 1..Len(word) |-> IF k \in U THEN UpperChar(word[k]) ELSE word[k]] :
      U \in SUBSET (1..Len(word)) }

Words ==
    { << "t", "r", "u", "e" >>, << "1" >>, << "y", "e", "s" >>, << "o", "n" >>,
      << "f", "a", "l", "s", "e" >>, << "0" >>, << "n", "o" >>,
      << "o", "f", "f" >>, << "r", "a", "n", "d", "o", "m" >>, << >>,
      << "t", "r", "u" >>, << "t", "r", "u", "e", " " >>, << " ", "o", "n" >>,
      << "y" >>, << "t" >>, << "1", "0" >>, << "o", "n", "e" >> }

StrInputs == UNION {CaseVariants(w) : w \in Words}

EnvVars == {AzureKey, AzureEndpoint, UseOllama}
EnvValues == { << >>, << "O", "n" >>, << "n", "o" >> }
Environs == UNION {[D -> EnvValues] : D \in SUBSET EnvVars}

RequiredLists == SeqsUpTo(EnvVars, MaxRequired)
ConfigTypes == {"Azure OpenAI", "Test Config"}

\* ------------------------------------------------------------------------
\* web_ui.py: the endpoints that hand commands to the shell
\* ------------------------------------------------------------------------
\* a command is the sequence of the fragments of its f-string; a fragment
\* is literal text of the handler, or text interpolated from the request
\* (origin names the request field it came from), or text from the host
Lit(text) == [text |-> text, origin |-> "code", value |-> ""]
Req(text, field, value) == [text |-> text, origin |-> field, value |-> value]
Host(text) == [text |-> text, origin |-> "host", value |-> ""]

StrFields == {"profile", "test_type", "command", "run_time", "service"}
IntFields == {"users", "spawn_rate", "lines"}

\* subprocess.run(command, shell=True, ...): success and the kind of stderr
run_command(host, command) ==
    IF command = << Lit("which make") >>
    THEN [success |-> host.make, stderr |-> "none"]
    ELSE IF command = << Lit("which make && which docker-compose") >>
    THEN [success |-> host.make /\ host.compose, stderr |-> "none"]
    ELSE IF command = << Lit("docker info") >>
    THEN [success |-> host.docker = "cli_ok",
          stderr  |-> IF host.docker = "cli_not_found" THEN "not found"
                      ELSE IF host.docker = "cli_daemon_down"
                      THEN "Cannot connect to the Docker daemon"
                      ELSE "other"]
    ELSE IF command = << Lit("mkdir -p test-reports logs htmlcov") >>
    THEN [success |-> TRUE, stderr |-> "none"]
    ELSE [success |-> host.exit = "ok", stderr |-> host.exit]

\* what check_docker_status returns and the commands it ran
check_docker_status(host) ==
    IF host.docker = "lib_up" \/ host.docker = "socket"
    THEN [success |-> TRUE, error |-> "none", shell |-> << >>]
    ELSE IF host.docker = "lib_down"
    THEN [success |-> FALSE, error |-> "docker_not_running", shell |-> << >>]
    ELSE IF host.docker = "lib_error"
    THEN [success |-> FALSE, error |-> "docker_error", shell |-> << >>]
    ELSE IF host.docker = "lib_unexpected"
    THEN [success |-> FALSE, error |-> "unexpected_error", shell |-> << >>]
    ELSE LET result == run_command(host, << Lit("docker info") >>)
         IN  [success |-> result.success,
              error   |-> IF result.success THEN "none"
                          ELSE IF result.stderr = "not found"
                          THEN "docker_cli_not_available"
                          ELSE IF result.stderr
                                  = "Cannot connect to the Docker daemon"
                          THEN "docker_not_running"
                          ELSE "docker_error",
              shell   |-> << << Lit("docker info") >> >>]

HTTPException(code) == [code |-> code, status |-> "none", error |-> "none"]
Reply(status, error) == [code |-> 200, status |-> status, error |-> error]

valid_profiles ==
    {"dev", "full", "testing", "monitoring", "load-testing", "demo"}

profile_map ==
    [p \in valid_profiles \ {"demo"} |-> IF p = "full" THEN "all" ELSE p]

\* variant: the compose command is run whatever the Docker check says
start_lab_unchecked_docker(host, profile) ==
    IF profile \notin valid_profiles
    THEN [shell |-> << >>, response |-> HTTPException(400)]
    ELSE IF profile = "demo"
    THEN [shell |-> << >>, response |-> Reply("success", "none")]
    ELSE LET docker_check == check_docker_status(host)
             command == << Lit("docker-compose --profile "),
                           Req(profile_map[profile], "profile", profile),
                           Lit(" up -d") >>
             result == run_command(host, command)
         IN  [shell    |-> Append(docker_check.shell, command),
              response |-> IF result.success
                           THEN Reply("success", "none")
                           ELSE Reply("error", "general_error")]

\* POST /api/lab/start/{profile}
start_lab(host, profile) ==
    IF profile \notin valid_profiles
    THEN [shell |-> << >>, response |-> HTTPException(400)]
    ELSE IF profile = "demo"
    THEN [shell |-> << >>, response |-> Reply("success", "none")]
    ELSE LET docker_check == check_docker_status(host)
         IN  IF ~docker_check.success
             THEN [shell    |-> docker_check.shell,
                   response |->
                       IF docker_check.error = "docker_not_running"
                       THEN Reply("error", "docker_not_running")
                       ELSE IF docker_check.error = "docker_cli_not_available"
                       THEN Reply("warning", "docker_cli_not_available")
                       ELSE Reply("error", docker_check.error)]
             ELSE LET command == << Lit("docker-compose --profile "),
                                    Req(profile_map[profile], "profile",
                                        profile),
                                    Lit(" up -d") >>
                      result == run_command(host, command)
                  IN  [shell    |-> Append(docker_check.shell, command),
                       response |->
                           IF result.success THEN Reply("success", "none")
                           ELSE IF result.stderr
                                   = "Cannot connect to the Docker daemon"
                           THEN Reply("warning", "docker_not_running")
                           ELSE IF result.stderr = "missing separator"
                           THEN Reply("error", "config_error")
                           ELSE Reply("error", "general_error")]

valid_test_types ==
    {"unit", "functional", "llm-eval", "conversations", "load", "all"}

\* test_commands of run_test
make_target(test_type) ==
    IF test_type = "load" THEN "auto-load-test-medium"
    ELSE "auto-test-" \o test_type

\* test_commands of run_tests_directly
pytest_command(test_type) ==
    IF test_type = "unit" THEN "pytest tests/unit/ -v --tb=short"
    ELSE IF test_type = "functional"
    THEN "pytest tests/functional/ -v --tb=short"
    ELSE IF test_type = "llm-eval"
    THEN "pytest tests/llm_evaluation/ -v --tb=short -m 'llm_eval or deepeval'"
    ELSE IF test_type = "conversations"
    THEN "pytest tests/llm_evaluation/test_conversation_chains.py -v --tb=short"
    ELSE "pytest tests/ -v --tb=short"

\* the commands run_tests_directly runs, and whether it succeeds
run_tests_directly(host, test_type) ==
    IF test_type = "load" \/ test_type \notin valid_test_types
    THEN [shell |-> << >>, success |-> FALSE]
    ELSE LET command ==
                 << Lit(pytest_command(test_type)),
                    Lit(" --junitxml=test-reports/"),
                    Req(test_type, "test_type", test_type),
                    Lit("-test-results.xml") >>
                 \o IF test_type = "all"
                    THEN << Lit(" --cov=. --cov-report=html:htmlcov --cov-report=term-missing") >>
                    ELSE << >>
         IN  [shell   |-> << << Lit("mkdir -p test-reports logs htmlcov") >>,
                             command >>,
              success |-> run_command(host, command).success]

\* POST /api/tests/{test_type}
run_test(host, test_type) ==
    IF test_type \notin valid_test_types
    THEN [shell |-> << >>, response |-> HTTPException(400)]
    ELSE LET which == << Lit("which make && which docker-compose") >>
             make_check == run_command(host, which)
             command == << Lit("make "),
                           Req(make_target(test_type), "test_type",
                               test_type) >>
             direct == run_tests_directly(host, test_type)
             shell == IF make_check.success THEN << which, command >>
                      ELSE << which >> \o direct.shell
             success == IF make_check.success
                        THEN run_command(host, command).success
                        ELSE direct.success
         IN  [shell    |-> shell,
              response |-> IF success THEN Reply("success", "none")
                           ELSE Reply("error", "failed")]

\* POST /api/load-test
run_load_test(host, config) ==
    LET command == << Lit("LOCUST_USERS="),
                      Req(ToString(config.users), "users", ""),
                      Lit(" LOCUST_SPAWN_RATE="),
                      Req(ToString(config.spawn_rate), "spawn_rate", ""),
                      Lit(" LOCUST_RUN_TIME="),
                      Req(config.run_time, "run_time", config.run_time),
                      Lit(" make auto-load-test-medium") >>
    IN  [shell    |-> << command >>,
         response |-> IF run_command(host, command).success
                      THEN Reply("success", "none")
                      ELSE HTTPException(500)]

valid_commands ==
    { "lab-start", "lab-start-full", "lab-start-minimal", "lab-start-testing",
      "lab-start-load-testing", "lab-stop", "lab-restart", "lab-status",
      "lab-health", "lab-logs", "lab-logs-app", "lab-logs-tests",
      "lab-logs-monitoring", "lab-shell", "lab-clean", "lab-reset",
      "auto-test-setup", "auto-test-run", "auto-test-unit",
      "auto-test-functional", "auto-test-llm-eval", "auto-test-conversations",
      "auto-test-all", "auto-test-reports",
      "auto-load-test-light", "auto-load-test-medium", "auto-load-test-heavy",
      "auto-load-test-conversation",
      "config-check", "config-generate", "config-validate",
      "config-example-quick-start", "config-example-full-eval", "env-copy",
      "env-check",
      "load-test-start", "load-test-headless", "load-test-stop",
      "load-test-light", "load-test-medium", "load-test-heavy",
      "load-test-health",
      "web-ui-start", "web-ui-stop", "web-ui-logs", "web-ui-health",
      "web-ui-demo",
      "docker-build", "docker-build-dev", "docker-up", "docker-down",
      "docker-logs", "docker-shell", "docker-clean",
      "generate-stability-report", "export-metrics", "view-metrics",
      "clean-logs",
      "ls", "lsf", "lst", "lsl", "lx", "lr", "lh", "cc", "at", "ata",
      "mon", "mon-stop", "mon-logs", "mon-health", "lt-start", "lt-stop",
      "lt-light", "lt-medium", "lt-heavy", "lt-health", "ui", "ui-stop",
      "ui-logs", "ui-demo" }

\* the commands that need OPENAI_API_KEY
llm_eval_commands == {"test-llm-eval", "test-deepeval", "auto-test-llm-eval"}

make_error(stderr) ==
    IF stderr = "No such file or directory" THEN "file_not_found"
    ELSE IF stderr = "Permission denied" THEN "permission_denied"
    ELSE IF stderr = "Command not found" THEN "dependencies_missing"
    ELSE stderr

\* variant: the command name is handed to make without the membership test
execute_make_command_unvalidated(host, command) ==
    LET which == << Lit("which make") >>
        full_command == << Lit("cd "), Host(host.cwd), Lit(" && make "),
                           Req(command, "command", command) >>
        result == run_command(host, full_command)
    IN  IF ~run_command(host, which).success
        THEN [shell    |-> << which >>,
              response |-> Reply("error", "make_not_available")]
        ELSE [shell    |-> << which, full_command >>,
              response |-> IF result.success THEN Reply("success", "none")
                           ELSE Reply("error", make_error(result.stderr))]

\* POST /api/make/{command}
execute_make_command(host, command) ==
    IF command \notin valid_commands
    THEN [shell |-> << >>, response |-> HTTPException(400)]
    ELSE LET which == << Lit("which make") >>
             full_command == << Lit("cd "), Host(host.cwd), Lit(" && make "),
                                Req(command, "command", command) >>
             result == run_command(host, full_command)
         IN  IF ~run_command(host, which).success
             THEN [shell    |-> << which >>,
                   response |-> Reply("error", "make_not_available")]
             ELSE IF command \in llm_eval_commands /\ ~host.api_key
             THEN [shell    |-> << which >>,
                   response |-> Reply("warning", "missing_api_key")]
             ELSE [shell    |-> << which, full_command >>,
                   response |->
                       IF result.success THEN Reply("success", "none")
                       ELSE Reply("error", make_error(result.stderr))]

\* GET /api/logs/{service}
get_service_logs(host, service, lines) ==
    LET command == << Lit("docker-compose logs --tail="),
                      Req(ToString(lines), "lines", ""),
                      Lit(" "),
                      Req(service, "service", service) >>
    IN  [shell    |-> << command >>,
         response |-> IF run_command(host, command).success
                      THEN [code |-> 200, status |-> "logs", error |-> "none"]
                      ELSE HTTPException(500)]

\* the fixed list a handler tests a request field against before using it
AllowList(field) ==
    IF field = "profile" THEN valid_profiles
    ELSE IF field = "test_type" THEN valid_test_types
    ELSE IF field = "command" THEN valid_commands
    ELSE {}

\* Requests and hosts
Profiles == valid_profiles \cup {"prod", "dev; id", ""}
TestTypes == valid_test_types \cup {"smoke", "unit; id"}
Commands == valid_commands \cup {"test-llm-eval", "install", "lab-stop; id", ""}
RunTimes == {"300s", "60s", "1s; id"}
Services == {"app", "ollama", "app; id"}
UserCounts == {1, 10}
LineCounts == {100, 500}

Requests ==
    {[endpoint |-> "start_lab", profile |-> p] : p \in Profiles}
    \cup {[endpoint |-> "run_test", test_type |-> t] : t \in TestTypes}
    \cup {[endpoint |-> "execute_make_command", command |-> c] :
              c \in Commands}
    \cup {[endpoint |-> "run_load_test",
           config |-> [users |-> u, spawn_rate |-> 1, run_time |-> r]] :
              u \in UserCounts, r \in RunTimes}
    \cup {[endpoint |-> "get_service_logs", service |-> s, lines |-> n] :
              s \in Services, n \in LineCounts}

DockerStates ==
    { "lib_up", "lib_down", "lib_error", "lib_unexpected", "socket",
      "cli_ok", "cli_not_found", "cli_daemon_down", "cli_failed" }

ExitKinds ==
    { "ok", "Cannot connect to the Docker daemon", "missing separator",
      "No such file or directory", "failed" }

Hosts ==
    [ docker  : DockerStates,
      make    : BOOLEAN,
      compose : BOOLEAN,
      api_key : BOOLEAN,
      exit    : ExitKinds,
      cwd     : {"/app"} ]

\* ------------------------------------------------------------------------
\* web_ui.py: ConnectionManager and the /ws handlers
\* ------------------------------------------------------------------------
\* the WebSocket objects of the run, one per client that ever connects
MaxClients == 2
Clients == 1..MaxClients

NoClient == 0

Elems(list) == {list[k] : k \in 1..Len(list)}

\* variant: disconnect leaves the list as it is
disconnect_keeps(list, websocket) == list

\* if websocket in self.active_connections:
\*     self.active_connections.remove(websocket)
disconnect(list, websocket) ==
    IF websocket \in Elems(list)
    THEN LET first == CHOOSE k \in 1..Len(list) :
                          /\ list[k] = websocket
                          /\ \A j \in 1..(k - 1) : list[j] # websocket
         IN  SubSeq(list, 1, first - 1) \o SubSeq(list, first + 1, Len(list))
    ELSE list

\* for conn in disconnected: self.disconnect(conn)
RECURSIVE CleanUp(_, _)
CleanUp(list, disconnected) ==
    IF disconnected = << >> THEN list
    ELSE CleanUp(disconnect(list, Head(disconnected)), Tail(disconnected))

\* the for loop of broadcast from list index i (0-based) up to its next
\* await, or to the end of the list: a connection that is not CONNECTED is
\* appended to disconnected and the loop goes on
RECURSIVE Advance(_, _, _, _)
Advance(list, socks, i, disconnected) ==
    IF i >= Len(list)
    THEN [ pc |-> "cleanup", index |-> i, connection |-> NoClient,
           disconnected |-> disconnected ]
    ELSE IF socks[list[i + 1]].client_state = "CONNECTED"
    THEN [ pc |-> "sending", index |-> i + 1, connection |-> list[i + 1],
           disconnected |-> disconnected ]
    ELSE Advance(list, socks, i + 1, Append(disconnected, list[i + 1]))

\* await connection.send_text(message) returns; it raises on a closed or
\* broken connection
Sends(sock) == sock.client_state = "CONNECTED" /\ sock.link = "ok"

\* ------------------------------------------------------------------------
\* logging_config.py: log_test_execution and the Prometheus handler
\* ------------------------------------------------------------------------
\* the uses of the context manager the model follows
MaxUses == 2

TestKinds == {"deepeval", "conversation_chain"}

\* chain_length: Optional[int]; None is as falsy as 0
ChainLengthArgs == {0, 5}

\* str(chain_length) if chain_length else "none"
chain_label(chain_length) ==
    IF chain_length # 0 THEN ToString(chain_length) ELSE "none"

\* how the body of the with statement ends: it returns, raises an
\* Exception, or raises a BaseException that is not an Exception
Exceptions == {"AssertionError", "ValueError"}
BaseOnly == {"KeyboardInterrupt"}
BodyEnds == {"returns"} \cup Exceptions \cup BaseOnly

TestLabels ==
    {<< t, chain_label(n), s >> :
        t \in TestKinds, n \in ChainLengthArgs, s \in {"success", "failed"}}

ErrorLabels ==
    {<< e, c >> : e \in Exceptions \cup {"unknown"},
                  c \in {"test_execution", "unknown"}}

\* Counter(...).labels(...).inc()
Inc(counter, labels) == [counter EXCEPT ![labels] = @ + 1]

\* PrometheusLoggingHandler.emit on a record structlog has rendered: the
\* event's fields are text in the message, not attributes of the record,
\* so only the level test applies
emit(metrics, record) ==
    LET counted ==
            IF {"test_type", "status"} \subseteq record.attributes
            THEN [metrics EXCEPT !.TEST_COUNTER =
                     Inc(@, << record.test_type, record.chain_length,
                               record.status >>)]
            ELSE metrics
        timed ==
            IF "duration_seconds" \in record.attributes
            THEN [counted EXCEPT !.TEST_DURATION = @ + 1]
            ELSE counted
    IN  IF record.level = "ERROR"
        THEN [timed EXCEPT !.ERROR_COUNTER =
                 Inc(@, << "unknown", "unknown" >>)]
        ELSE timed

\* logger.info(...) / logger.error(...) of a structlog logger
log(metrics, handler, level) ==
    IF handler
    THEN emit(metrics, [level |-> level, attributes |-> {}])
    ELSE metrics

\* variant: the success count is made in a finally clause
leave_counts_success_always(metrics, handler, test_type, chain_length, body) ==
    LET counted == [metrics EXCEPT
                       !.TEST_COUNTER =
                           Inc(@, << test_type, chain_label(chain_length),
                                     "success" >>)]
    IN  IF body = "returns"
        THEN [ metrics |-> log(counted, handler, "INFO"),
               raised  |-> "none" ]
        ELSE IF body \in Exceptions
        THEN [ metrics |->
                   [log(counted, handler, "ERROR") EXCEPT
                       !.TEST_COUNTER =
                           Inc(@, << test_type, chain_label(chain_length),
                                     "failed" >>),
                       !.ERROR_COUNTER =
                           Inc(@, << body, "test_execution" >>)],
               raised  |-> body ]
        ELSE [metrics |-> counted, raised |-> body]

\* log_test_execution after the yield: the success branch of the try, the
\* except Exception branch, or neither
leave(metrics, handler, test_type, chain_length, body) ==
    IF body = "returns"
    THEN [ metrics |->
               [log(metrics, handler, "INFO") EXCEPT
                   !.TEST_COUNTER =
                       Inc(@, << test_type, chain_label(chain_length),
                                 "success" >>),
                   !.TEST_DURATION = @ + 1],
           raised  |-> "none" ]
    ELSE IF body \in Exceptions
    THEN [ metrics |->
               [log(metrics, handler, "ERROR") EXCEPT
                   !.TEST_COUNTER =
                       Inc(@, << test_type, chain_label(chain_length),
                                 "failed" >>),
                   !.ERROR_COUNTER = Inc(@, << body, "test_execution" >>)],
           raised  |-> body ]
    ELSE [metrics |-> metrics, raised |-> body]

\* ------------------------------------------------------------------------
\* State
\* ------------------------------------------------------------------------
\* the call of calculate_stability_metrics
VARIABLES all_scores, result, pc

\* the chain test around it
VARIABLES chain_length, oracle, conversation_data, turn_index,
          conversation_turns, turn_counter, error_counter, average_scores,
          score_variance, stability_status, results_table, outcome

\* config.py
VARIABLES environ, stdout, app_config, validate_calls, ret, cpc

\* a pytest run of the chain test class
VARIABLES queue, reports, cross_outcome, tpc

\* a request to the web API
VARIABLES request, host, shell, response, wpc

\* the websocket connections and the broadcast under way
VARIABLES active_connections, sockets, broadcast, audit

\* the metrics exporter's two threads
VARIABLES app_status, main_pc, updater_pc, clock, gauges, http_code

\* the Prometheus metrics of logging_config.py and the use of
\* log_test_execution under way
VARIABLES metrics, prometheus_handler, use, uses, lpc

svars == << all_scores, result, pc >>

hvars == << chain_length, oracle, conversation_data, turn_index,
            conversation_turns, turn_counter, error_counter, average_scores,
            score_variance, stability_status, results_table, outcome >>

cvars == << environ, stdout, app_config, validate_calls, ret, cpc >>

tvars == << queue, reports, cross_outcome, tpc >>

wvars == << request, host, shell, response, wpc >>

kvars == << active_connections, sockets, broadcast, audit >>

evars == << app_status, main_pc, updater_pc, clock, gauges, http_code >>

lvars == << metrics, prometheus_handler, use, uses, lpc >>

\* the groups other than the chain test's and config.py's
yvars == << wvars, kvars, evars, lvars >>
xvars == << tvars, yvars >>

\* everything but the web API's variables
nonweb == << svars, hvars, cvars, tvars, kvars, evars, lvars >>

\* everything but the websocket variables
nonsocket == << svars, hvars, cvars, tvars, wvars, evars, lvars >>

\* everything but the exporter's variables
nonexporter == << svars, hvars, cvars, tvars, wvars, kvars, lvars >>

\* everything but the variables of log_test_execution
nonlogging == << svars, hvars, cvars, tvars, wvars, kvars, evars >>

vars == << svars, hvars, cvars, xvars >>

\* no chain test is running
HarnessIdle ==
    /\ chain_length = 0
    /\ oracle = NoOracle
    /\ conversation_data = << >>
    /\ turn_index = 0
    /\ conversation_turns = << >>
    /\ turn_counter = 0
    /\ error_counter = 0
    /\ average_scores = EmptyMap
    /\ score_variance = EmptyMap
    /\ stability_status = EmptyMap
    /\ results_table = << >>
    /\ outcome = "none"

NoReturn == [op |-> "none"]

\* config.py is not in use
ConfigIdle ==
    /\ environ = EmptyMap
    /\ stdout = << >>
    /\ app_config = [use_ollama |-> TRUE]
    /\ validate_calls = << >>
    /\ ret = NoReturn
    /\ cpc = "idle"

\* no pytest run is under way
SessionIdle ==
    /\ queue = << >>
    /\ reports = << >>
    /\ cross_outcome = "none"
    /\ tpc = "idle"

NoResponse == [code |-> 0, status |-> "none", error |-> "none"]

\* no request is being handled
WebIdle ==
    /\ request = [endpoint |-> "none"]
    /\ host = [docker |-> "none"]
    /\ shell = << >>
    /\ response = NoResponse
    /\ wpc = "idle"

NoBroadcast ==
    [pc |-> "idle", index |-> 0, connection |-> 0, disconnected |-> << >>]

NoAudit == [started |-> << >>, events |-> {}, delivered |-> << >>]

\* no websocket is open and nothing is broadcast
SocketIdle ==
    /\ active_connections = << >>
    /\ sockets = << >>
    /\ broadcast = NoBroadcast
    /\ audit = NoAudit

\* no exporter has been constructed
ExporterIdle ==
    /\ app_status = "none"
    /\ main_pc = "idle"
    /\ updater_pc = "none"
    /\ clock = 0
    /\ gauges = [uptime |-> 0, ollama_up |-> 0]
    /\ http_code = 0

NoUse ==
    [ test_type |-> "none", chain_length |-> 0, body |-> "none",
      before |-> << >>, raised |-> "none" ]

\* log_test_execution is not in use
LoggingIdle ==
    /\ metrics = << >>
    /\ prometheus_handler = FALSE
    /\ use = NoUse
    /\ uses = 0
    /\ lpc = "idle"

NonLoggingIdle ==
    /\ TRUE

\* what only the remaining components use
NonExporterIdle ==
    /\ LoggingIdle
    /\ NonLoggingIdle

\* what neither the chain test, config.py, the web API nor the websockets
\* use
NonSocketIdle ==
    /\ ExporterIdle
    /\ NonExporterIdle

\* what neither the chain test, config.py nor the web API uses
NonWebIdle ==
    /\ SocketIdle
    /\ NonSocketIdle

ExtrasIdle ==
    /\ SessionIdle
    /\ WebIdle
    /\ NonWebIdle

\* ------------------------------------------------------------------------
\* State machine: one call of calculate_stability_metrics(all_scores)
\* ------------------------------------------------------------------------
Init ==
    /\ all_scores \in Inputs
    /\ result = Return(EmptyMap)
    /\ pc = "ready"
    /\ HarnessIdle
    /\ ConfigIdle
    /\ ExtrasIdle

\* variant: the scores are popped off the input list while they are read
Calculate_consuming ==
    /\ pc = "ready"
    /\ result' = calculate_stability_metrics(all_scores)
    /\ pc' = "done"
    /\ all_scores' = << >>
    /\ UNCHANGED << hvars, cvars, xvars >>

\* stability_metrics = self.calculate_stability_metrics(all_scores)
Calculate ==
    /\ pc = "ready"
    /\ result' = calculate_stability_metrics(all_scores)
    /\ pc' = "done"
    /\ UNCHANGED all_scores
    /\ UNCHANGED << hvars, cvars, xvars >>

Next == Calculate

Spec == Init /\ [][Next]_vars

\* ------------------------------------------------------------------------
\* State machine: one call of calculate_stability_metrics on a metric whose
\* constant score lies half way between two decimals
\* ------------------------------------------------------------------------
InitTies ==
    /\ all_scores \in TieInputs
    /\ result = Return(EmptyMap)
    /\ pc = "ready"
    /\ HarnessIdle
    /\ ConfigIdle
    /\ ExtrasIdle

NextTies == Calculate

SpecTies == InitTies /\ [][NextTies]_vars

\* ------------------------------------------------------------------------
\* State machine: test_conversation_chain_evaluation(chain_length)
\* ------------------------------------------------------------------------
InitChain ==
    /\ chain_length \in ChainLengths
    /\ oracle \in Oracles
    /\ conversation_data =
           generate_conversation_chain(chain_length, chain_length % 3)
    /\ turn_index = 0
    /\ conversation_turns = << >>
    /\ all_scores = << >>
    /\ turn_counter = 0
    /\ error_counter = 0
    /\ average_scores = EmptyMap
    /\ score_variance = EmptyMap
    /\ stability_status = EmptyMap
    /\ results_table = << >>
    /\ outcome = "none"
    /\ result = Return(EmptyMap)
    /\ pc = "loop"
    /\ ConfigIdle
    /\ ExtrasIdle

\* one pass of: for i, (question, answer, context) in enumerate(conversation_data)
EvaluateTurn ==
    /\ pc = "loop"
    /\ turn_index < Len(conversation_data)
    /\ LET outcomes == [m \in MetricNames |->
                           measure(oracle, m, turn_index + 1, chain_length)]
           evaluated == evaluate_conversation_turn(setup_metrics, outcomes)
           turn == [ turn_number    |-> turn_index + 1,
                     data           |-> conversation_data[turn_index + 1],
                     chain_length   |-> chain_length,
                     metrics_scores |-> evaluated.scores ]
       IN  /\ conversation_turns' = Append(conversation_turns, turn)
           /\ all_scores' = Append(all_scores, evaluated.scores)
           /\ error_counter' = error_counter + evaluated.errors
    /\ turn_counter' = turn_counter + 1
    /\ turn_index' = turn_index + 1
    /\ UNCHANGED << result, pc, chain_length, oracle, conversation_data,
                    average_scores, score_variance, stability_status,
                    results_table, outcome, cvars, xvars >>

\* the loop is exhausted: average_scores and score_variance
Average ==
    /\ pc = "loop"
    /\ turn_index = Len(conversation_data)
    /\ IF MissingKey(all_scores)
       THEN /\ pc' = "finished"
            /\ outcome' = "KeyError"
            /\ UNCHANGED << average_scores, score_variance >>
       ELSE /\ pc' = "ready"
            /\ average_scores' = AverageScores(all_scores)
            /\ score_variance' = ScoreVariance(all_scores)
            /\ UNCHANGED outcome
    /\ UNCHANGED << all_scores, result, chain_length, oracle,
                    conversation_data, turn_index, conversation_turns,
                    turn_counter, error_counter, stability_status,
                    results_table, cvars, xvars >>

\* for metric_name, stability in stability_metrics.items():
\*     log_framework_stability(...)
LogStability ==
    /\ pc = "done"
    /\ IF result.raised = "none"
       THEN /\ stability_status' = StabilityLabels(result.value)
            /\ pc' = "logged"
            /\ UNCHANGED outcome
       ELSE /\ pc' = "finished"
            /\ outcome' = result.raised
            /\ UNCHANGED stability_status
    /\ UNCHANGED << all_scores, result, chain_length, oracle,
                    conversation_data, turn_index, conversation_turns,
                    turn_counter, error_counter, average_scores,
                    score_variance, results_table, cvars, xvars >>

\* self.results_table.append(asdict(result))
StoreResult ==
    /\ pc = "logged"
    /\ results_table' =
           Append(results_table,
                  [ chain_length       |-> chain_length,
                    total_turns        |-> Len(conversation_turns),
                    average_scores     |-> average_scores,
                    score_variance     |-> score_variance,
                    stability_metrics  |-> result.value,
                    conversation_turns |-> conversation_turns ])
    /\ pc' = "stored"
    /\ UNCHANGED << all_scores, result, chain_length, oracle,
                    conversation_data, turn_index, conversation_turns,
                    turn_counter, error_counter, average_scores,
                    score_variance, stability_status, outcome, cvars, xvars >>

\* the assertions; the test passes or fails with AssertionError
CheckAssertions ==
    /\ pc = "stored"
    /\ outcome' = IF ChainAssertions(chain_length, conversation_turns,
                                     all_scores, result.value)
                  THEN "passed" ELSE "AssertionError"
    /\ pc' = "finished"
    /\ UNCHANGED << all_scores, result, chain_length, oracle,
                    conversation_data, turn_index, conversation_turns,
                    turn_counter, error_counter, average_scores,
                    score_variance, stability_status, results_table, cvars, xvars >>

NextChain ==
    \/ EvaluateTurn
    \/ Average
    \/ Calculate
    \/ LogStability
    \/ StoreResult
    \/ CheckAssertions

SpecChain == InitChain /\ [][NextChain]_vars

\* ------------------------------------------------------------------------
\* State machine: _run_dynamic_conversation_test(chain_length)
\* ------------------------------------------------------------------------
InitDynamic ==
    /\ chain_length \in DynamicLengths
    /\ oracle \in DynamicOracles
    /\ conversation_data =
           generate_dynamic_conversation(chain_length, chain_length % 5)
    /\ turn_index = 0
    /\ conversation_turns = << >>
    /\ all_scores = << >>
    /\ turn_counter = 0
    /\ error_counter = 0
    /\ average_scores = EmptyMap
    /\ score_variance = EmptyMap
    /\ stability_status = EmptyMap
    /\ results_table = << >>
    /\ outcome = "none"
    /\ result = Return(EmptyMap)
    /\ pc = "loop"
    /\ ConfigIdle
    /\ ExtrasIdle

\* one pass of: for i, (question, answer, context) in enumerate(conversation_data)
EvaluateDynamicTurn ==
    /\ pc = "loop"
    /\ turn_index < Len(conversation_data)
    /\ LET outcomes == [m \in DynamicMetricNames |->
                           measure(oracle, m, turn_index + 1, chain_length)]
           evaluated == evaluate_conversation_turn(setup_dynamic_metrics,
                                                   outcomes)
           turn == DynamicConversationTurn(turn_index,
                                           conversation_data[turn_index + 1],
                                           chain_length, evaluated.scores)
       IN  /\ conversation_turns' = Append(conversation_turns, turn)
           /\ all_scores' = Append(all_scores, evaluated.scores)
           /\ error_counter' = error_counter + evaluated.errors
    /\ turn_counter' = turn_counter + 1
    /\ turn_index' = turn_index + 1
    /\ UNCHANGED << result, pc, chain_length, oracle, conversation_data,
                    average_scores, score_variance, stability_status,
                    results_table, outcome, cvars, xvars >>

\* self.results_table.append(asdict(result))
StoreDynamicResult ==
    /\ pc = "logged"
    /\ results_table' =
           Append(results_table,
                  [ chain_length       |-> chain_length,
                    total_turns        |-> Len(conversation_turns),
                    initial_topic      |-> chain_length % 5,
                    average_scores     |-> average_scores,
                    score_variance     |-> score_variance,
                    stability_metrics  |-> result.value,
                    conversation_turns |-> conversation_turns ])
    /\ pc' = "stored"
    /\ UNCHANGED << all_scores, result, chain_length, oracle,
                    conversation_data, turn_index, conversation_turns,
                    turn_counter, error_counter, average_scores,
                    score_variance, stability_status, outcome, cvars, xvars >>

\* the assertions; the test passes or fails with AssertionError
CheckDynamicAssertions ==
    /\ pc = "stored"
    /\ outcome' = IF DynamicAssertions(chain_length, conversation_turns,
                                       all_scores, result.value)
                  THEN "passed" ELSE "AssertionError"
    /\ pc' = "finished"
    /\ UNCHANGED << all_scores, result, chain_length, oracle,
                    conversation_data, turn_index, conversation_turns,
                    turn_counter, error_counter, average_scores,
                    score_variance, stability_status, results_table, cvars, xvars >>

NextDynamic ==
    \/ EvaluateDynamicTurn
    \/ Average
    \/ Calculate
    \/ LogStability
    \/ StoreDynamicResult
    \/ CheckDynamicAssertions

SpecDynamic == InitDynamic /\ [][NextDynamic]_vars

\* ------------------------------------------------------------------------
\* State machine: a pytest run of TestConversationChainStability
\* ------------------------------------------------------------------------
\* the chain lengths of S in the order of the parametrize list
Ordered(S) ==
    CHOOSE q \in [1..Cardinality(S) -> S] :
        \A i, j \in 1..Cardinality(S) : i < j => q[i] < q[j]

\* the parametrized tests selected for the run, in collection order
Selections == {Ordered(S) : S \in SUBSET ChainLengths}

SessionOracles ==
    { [ profile |-> [m \in MetricNames |->
                        IF m = "BiasMetric" THEN q ELSE "steady"],
        failing |-> {} ] :
      q \in {"steady", "zero"} }

\* assert score_range < 0.3, on averages that count 1e-4
ConsistencyLimit == 3000

\* metric_consistency[metric_name][result['chain_length']] = avg_score
MetricConsistency(table, metric_name) ==
    [n \in {table[k].chain_length : k \in 1..Len(table)} |->
        LET last == CHOOSE k \in 1..Len(table) :
                        /\ table[k].chain_length = n
                        /\ \A j \in 1..Len(table) :
                               table[j].chain_length = n => j <= k
        IN  table[last].average_scores[metric_name]]

\* the body of test_cross_chain_consistency, on self.results_table
cross_chain_consistency(table) ==
    IF table = << >> THEN "skipped"
    ELSE LET chain_lengths == {table[k].chain_length : k \in 1..Len(table)}
             names == UNION {DOMAIN table[k].average_scores :
                                 k \in 1..Len(table)}
         IN  IF Cardinality(chain_lengths) < 2 THEN "skipped"
             ELSE IF \A m \in names :
                         LET chain_scores == MetricConsistency(table, m)
                         IN  \A a, b \in DOMAIN chain_scores :
                                 chain_scores[a] - chain_scores[b]
                                     < ConsistencyLimit
                  THEN "passed"
                  ELSE "AssertionError"

InitSession ==
    /\ queue \in Selections
    /\ oracle \in SessionOracles
    /\ reports = << >>
    /\ cross_outcome = "none"
    /\ tpc = "collected"
    /\ chain_length = 0
    /\ conversation_data = << >>
    /\ turn_index = 0
    /\ conversation_turns = << >>
    /\ all_scores = << >>
    /\ turn_counter = 0
    /\ error_counter = 0
    /\ average_scores = EmptyMap
    /\ score_variance = EmptyMap
    /\ stability_status = EmptyMap
    /\ results_table = << >>
    /\ outcome = "none"
    /\ result = Return(EmptyMap)
    /\ pc = "idle"
    /\ ConfigIdle
    /\ WebIdle
    /\ NonWebIdle

\* the autouse fixture, before every test: self.results_table = []
SetupLogging ==
    /\ tpc = "collected"
    /\ cross_outcome = "none"
    /\ results_table' = << >>
    /\ tpc' = "setup"
    /\ UNCHANGED << svars, chain_length, oracle, conversation_data,
                    turn_index, conversation_turns, turn_counter,
                    error_counter, average_scores, score_variance,
                    stability_status, outcome, queue, reports,
                    cross_outcome, cvars, yvars >>

\* test_conversation_chain_evaluation[chain_length] begins
StartChainTest ==
    /\ tpc = "setup"
    /\ queue # << >>
    /\ chain_length' = Head(queue)
    /\ queue' = Tail(queue)
    /\ conversation_data' =
           generate_conversation_chain(Head(queue), Head(queue) % 3)
    /\ turn_index' = 0
    /\ conversation_turns' = << >>
    /\ all_scores' = << >>
    /\ average_scores' = EmptyMap
    /\ score_variance' = EmptyMap
    /\ outcome' = "none"
    /\ result' = Return(EmptyMap)
    /\ pc' = "loop"
    /\ tpc' = "running"
    /\ UNCHANGED << oracle, turn_counter, error_counter, stability_status,
                    results_table, reports, cross_outcome, cvars, yvars >>

\* the chain test has passed or failed; pytest moves on
FinishChainTest ==
    /\ tpc = "running"
    /\ pc = "finished"
    /\ reports' = Append(reports, [ chain_length |-> chain_length,
                                    outcome      |-> outcome,
                                    stored       |-> Len(results_table) ])
    /\ pc' = "idle"
    /\ tpc' = "collected"
    /\ UNCHANGED << all_scores, result, hvars, queue, cross_outcome, cvars, yvars >>

\* test_cross_chain_consistency, the last test of the class
CrossChainConsistency ==
    /\ tpc = "setup"
    /\ queue = << >>
    /\ cross_outcome' = cross_chain_consistency(results_table)
    /\ tpc' = "done"
    /\ UNCHANGED << svars, hvars, queue, reports, cvars, yvars >>

NextSession ==
    \/ SetupLogging
    \/ StartChainTest
    \/ EvaluateTurn
    \/ Average
    \/ Calculate
    \/ LogStability
    \/ StoreResult
    \/ CheckAssertions
    \/ FinishChainTest
    \/ CrossChainConsistency

SpecSession == InitSession /\ [][NextSession]_vars

\* ------------------------------------------------------------------------
\* State machine: one request to the web API
\* ------------------------------------------------------------------------
InitWeb ==
    /\ request \in Requests
    /\ host \in Hosts
    /\ shell = << >>
    /\ response = NoResponse
    /\ wpc = "received"
    /\ all_scores = << >>
    /\ result = Return(EmptyMap)
    /\ pc = "idle"
    /\ HarnessIdle
    /\ ConfigIdle
    /\ SessionIdle
    /\ NonWebIdle

\* the handler runs its commands and responds
Respond(handled) ==
    /\ shell' = handled.shell
    /\ response' = handled.response
    /\ wpc' = "responded"
    /\ UNCHANGED << request, host, nonweb >>

StartLab ==
    /\ wpc = "received"
    /\ request.endpoint = "start_lab"
    /\ Respond(start_lab(host, request.profile))

RunTest ==
    /\ wpc = "received"
    /\ request.endpoint = "run_test"
    /\ Respond(run_test(host, request.test_type))

ExecuteMakeCommand ==
    /\ wpc = "received"
    /\ request.endpoint = "execute_make_command"
    /\ Respond(execute_make_command(host, request.command))

RunLoadTest ==
    /\ wpc = "received"
    /\ request.endpoint = "run_load_test"
    /\ Respond(run_load_test(host, request.config))

GetServiceLogs ==
    /\ wpc = "received"
    /\ request.endpoint = "get_service_logs"
    /\ Respond(get_service_logs(host, request.service, request.lines))

NextWeb ==
    \/ StartLab
    \/ RunTest
    \/ ExecuteMakeCommand
    \/ RunLoadTest
    \/ GetServiceLogs

SpecWeb == InitWeb /\ [][NextWeb]_vars

\* ------------------------------------------------------------------------
\* State machine: broadcast_updates and the /ws handlers on one event loop
\* ------------------------------------------------------------------------
InitSocket ==
    /\ active_connections = << >>
    /\ sockets = [c \in Clients |->
                     [ client_state |-> "CONNECTING", link |-> "ok",
                       handler |-> "new" ]]
    /\ broadcast = NoBroadcast
    /\ audit = NoAudit
    /\ all_scores = << >>
    /\ result = Return(EmptyMap)
    /\ pc = "idle"
    /\ HarnessIdle
    /\ ConfigIdle
    /\ SessionIdle
    /\ WebIdle
    /\ NonSocketIdle

\* an event on client c is noted for the broadcast under way
Noted(c) == audit' = [audit EXCEPT !.events = @ \cup {c}]

\* websocket_endpoint: await manager.connect(websocket), up to accept()
Accept(c) ==
    /\ sockets[c].handler = "new"
    /\ sockets' = [sockets EXCEPT ![c].client_state = "CONNECTED",
                                  ![c].handler = "accepted"]
    /\ Noted(c)
    /\ UNCHANGED << active_connections, broadcast, nonsocket >>

\* connect, after accept(): self.active_connections.append(websocket)
Register(c) ==
    /\ sockets[c].handler = "accepted"
    /\ active_connections' = Append(active_connections, c)
    /\ sockets' = [sockets EXCEPT ![c].handler = "serving"]
    /\ Noted(c)
    /\ UNCHANGED << broadcast, nonsocket >>

\* receive_text raises WebSocketDisconnect: manager.disconnect(websocket)
Disconnect(c) ==
    /\ sockets[c].handler = "serving"
    /\ active_connections' = disconnect(active_connections, c)
    /\ sockets' = [sockets EXCEPT ![c].client_state = "DISCONNECTED",
                                  ![c].handler = "closed"]
    /\ Noted(c)
    /\ UNCHANGED << broadcast, nonsocket >>

\* the handler ends on another exception: the socket is closed and stays
\* in the list
Drop(c) ==
    /\ sockets[c].handler = "serving"
    /\ sockets' = [sockets EXCEPT ![c].client_state = "DISCONNECTED",
                                  ![c].handler = "closed"]
    /\ Noted(c)
    /\ UNCHANGED << active_connections, broadcast, nonsocket >>

\* the transport of a served connection breaks: send_text will raise
Break(c) ==
    /\ sockets[c].handler = "serving"
    /\ sockets[c].link = "ok"
    /\ sockets' = [sockets EXCEPT ![c].link = "broken"]
    /\ Noted(c)
    /\ UNCHANGED << active_connections, broadcast, nonsocket >>

\* broadcast runs from loop index i to its next await, or to its return
RunBroadcast(i, disconnected) ==
    LET b == Advance(active_connections, sockets, i, disconnected)
    IN  IF b.pc = "cleanup"
        THEN /\ active_connections' =
                    CleanUp(active_connections, b.disconnected)
             /\ broadcast' = [b EXCEPT !.pc = "returned"]
        ELSE /\ broadcast' = b
             /\ UNCHANGED active_connections

\* broadcast_updates: await manager.broadcast(...)
StartBroadcast ==
    /\ broadcast.pc = "idle"
    /\ audit' = [ started   |-> active_connections,
                  events    |-> {},
                  delivered |-> [c \in Clients |-> 0] ]
    /\ RunBroadcast(0, << >>)
    /\ UNCHANGED << sockets, nonsocket >>

\* the send_text awaited by broadcast returns or raises, and the loop
\* goes on
ResumeBroadcast ==
    /\ broadcast.pc = "sending"
    /\ IF Sends(sockets[broadcast.connection])
       THEN /\ audit' = [audit EXCEPT
                            !.delivered[broadcast.connection] = @ + 1]
            /\ RunBroadcast(broadcast.index, broadcast.disconnected)
       ELSE /\ UNCHANGED audit
            /\ RunBroadcast(broadcast.index,
                            Append(broadcast.disconnected,
                                   broadcast.connection))
    /\ UNCHANGED << sockets, nonsocket >>

\* broadcast_updates: await asyncio.sleep(10), then the next round
Sleep ==
    /\ broadcast.pc = "returned"
    /\ broadcast' = NoBroadcast
    /\ UNCHANGED << active_connections, sockets, audit, nonsocket >>

NextSocket ==
    \/ \E c \in Clients : Accept(c)
    \/ \E c \in Clients : Register(c)
    \/ \E c \in Clients : Disconnect(c)
    \/ \E c \in Clients : Drop(c)
    \/ \E c \in Clients : Break(c)
    \/ StartBroadcast
    \/ ResumeBroadcast
    \/ Sleep

SpecSocket == InitSocket /\ [][NextSocket]_vars

\* ------------------------------------------------------------------------
\* State machine: prometheus_exporter.py, main thread and updater thread
\* ------------------------------------------------------------------------
\* seconds of time.time() the model lets pass
MaxClock == 2

\* the paths a GET may ask for
Paths == {"/metrics", "/health", "/favicon.ico"}

\* PrometheusExporter.__init__: start_time = time.time(), state('starting')
InitExporter ==
    /\ app_status = "starting"
    /\ main_pc = "constructed"
    /\ updater_pc = "none"
    /\ clock = 0
    /\ gauges = [uptime |-> 0, ollama_up |-> 0]
    /\ http_code = 0
    /\ all_scores = << >>
    /\ result = Return(EmptyMap)
    /\ pc = "idle"
    /\ HarnessIdle
    /\ ConfigIdle
    /\ SessionIdle
    /\ WebIdle
    /\ SocketIdle
    /\ NonExporterIdle

\* start_server: self.start_background_updater()
StartBackgroundUpdater ==
    /\ main_pc = "constructed"
    /\ main_pc' = "binding"
    /\ updater_pc' = "app"
    /\ UNCHANGED << app_status, clock, gauges, http_code, nonexporter >>

\* server = HTTPServer(('0.0.0.0', self.port), handler): binds, or raises
\* out of start_server, before the try
Bind ==
    /\ main_pc = "binding"
    /\ main_pc' \in {"serving", "failed"}
    /\ UNCHANGED << app_status, updater_pc, clock, gauges, http_code,
                    nonexporter >>

\* MetricsHandler.do_GET
do_GET(path) ==
    IF path = "/metrics" \/ path = "/health" THEN 200 ELSE 404

\* server.serve_forever() answers a request
ServeRequest ==
    /\ main_pc = "serving"
    /\ \E path \in Paths : http_code' = do_GET(path)
    /\ UNCHANGED << app_status, main_pc, updater_pc, clock, gauges,
                    nonexporter >>

\* except KeyboardInterrupt: self.app_status.state('stopping')
Interrupt ==
    /\ main_pc = "serving"
    /\ app_status' = "stopping"
    /\ main_pc' = "finally"
    /\ UNCHANGED << updater_pc, clock, gauges, http_code, nonexporter >>

\* serve_forever ends on another exception
ServerError ==
    /\ main_pc = "serving"
    /\ main_pc' = "finally"
    /\ UNCHANGED << app_status, updater_pc, clock, gauges, http_code,
                    nonexporter >>

\* finally: self.app_status.state('stopped')
Finally ==
    /\ main_pc = "finally"
    /\ app_status' = "stopped"
    /\ main_pc' = "returned"
    /\ UNCHANGED << updater_pc, clock, gauges, http_code, nonexporter >>

\* main() returns or raises; the daemon thread ends with the process
Exit ==
    /\ main_pc \in {"returned", "failed"}
    /\ main_pc' = "exited"
    /\ updater_pc' = "killed"
    /\ UNCHANGED << app_status, clock, gauges, http_code, nonexporter >>

\* update_app_metrics: self.app_status.state('running')
update_app_metrics(status) == "running"

\* update_loop: self.update_app_metrics(), which may raise while it reads
\* the report files
UpdateAppMetrics ==
    /\ updater_pc = "app"
    /\ gauges' = [gauges EXCEPT !.uptime = clock]
    /\ app_status' = update_app_metrics(app_status)
    /\ updater_pc' \in {"system", "error_sleep"}
    /\ UNCHANGED << main_pc, clock, http_code, nonexporter >>

\* update_loop: self.update_system_metrics()
UpdateSystemMetrics ==
    /\ updater_pc = "system"
    /\ updater_pc' = "ollama"
    /\ UNCHANGED << app_status, main_pc, clock, gauges, http_code,
                    nonexporter >>

\* update_loop: self.check_ollama_status(), then time.sleep(15)
CheckOllamaStatus ==
    /\ updater_pc = "ollama"
    /\ \E up \in {0, 1} : gauges' = [gauges EXCEPT !.ollama_up = up]
    /\ updater_pc' = "sleep"
    /\ UNCHANGED << app_status, main_pc, clock, http_code, nonexporter >>

\* time.sleep(15) or time.sleep(5) is over
WakeUp ==
    /\ updater_pc \in {"sleep", "error_sleep"}
    /\ updater_pc' = "app"
    /\ UNCHANGED << app_status, main_pc, clock, gauges, http_code,
                    nonexporter >>

\* a second passes
Tick ==
    /\ main_pc # "exited"
    /\ clock < MaxClock
    /\ clock' = clock + 1
    /\ UNCHANGED << app_status, main_pc, updater_pc, gauges, http_code,
                    nonexporter >>

NextExporter ==
    \/ StartBackgroundUpdater
    \/ Bind
    \/ ServeRequest
    \/ Interrupt
    \/ ServerError
    \/ Finally
    \/ Exit
    \/ UpdateAppMetrics
    \/ UpdateSystemMetrics
    \/ CheckOllamaStatus
    \/ WakeUp
    \/ Tick

SpecExporter == InitExporter /\ [][NextExporter]_vars

\* ------------------------------------------------------------------------
\* State machine: uses of log_test_execution
\* ------------------------------------------------------------------------
NoMetrics ==
    [ TEST_COUNTER  |-> [l \in TestLabels |-> 0],
      TEST_DURATION |-> 0,
      ERROR_COUNTER |-> [l \in ErrorLabels |-> 0] ]

InitLogging ==
    /\ metrics = NoMetrics
    /\ prometheus_handler \in BOOLEAN
    /\ use = NoUse
    /\ uses = 0
    /\ lpc = "outside"
    /\ all_scores = << >>
    /\ result = Return(EmptyMap)
    /\ pc = "idle"
    /\ HarnessIdle
    /\ ConfigIdle
    /\ SessionIdle
    /\ WebIdle
    /\ SocketIdle
    /\ ExporterIdle
    /\ NonLoggingIdle

\* with log_test_execution(test_name, test_type, chain_length, logger):
\* the code before the yield
Enter ==
    /\ lpc \in {"outside", "left"}
    /\ uses < MaxUses
    /\ \E t \in TestKinds, n \in ChainLengthArgs :
           use' = [ test_type |-> t, chain_length |-> n, body |-> "running",
                    before |-> log(metrics, prometheus_handler, "INFO"),
                    raised |-> "none" ]
    /\ metrics' = log(metrics, prometheus_handler, "INFO")
    /\ uses' = uses + 1
    /\ lpc' = "body"
    /\ UNCHANGED << prometheus_handler, nonlogging >>

\* the body ends and the code after the yield runs
Leave ==
    /\ lpc = "body"
    /\ \E body \in BodyEnds :
           LET left == leave(metrics, prometheus_handler, use.test_type,
                             use.chain_length, body)
           IN  /\ metrics' = left.metrics
               /\ use' = [use EXCEPT !.body = body, !.raised = left.raised]
    /\ lpc' = "left"
    /\ UNCHANGED << prometheus_handler, uses, nonlogging >>

NextLogging ==
    \/ Enter
    \/ Leave

SpecLogging == InitLogging /\ [][NextLogging]_vars

\* ------------------------------------------------------------------------
\* State machine: config.py
\* ------------------------------------------------------------------------
InitConfig ==
    /\ environ \in Environs
    /\ stdout = << >>
    /\ app_config = [use_ollama |-> TRUE]
    /\ validate_calls = << >>
    /\ ret = NoReturn
    /\ cpc = "start"
    /\ all_scores = << >>
    /\ result = Return(EmptyMap)
    /\ pc = "idle"
    /\ HarnessIdle
    /\ ExtrasIdle

\* str_to_bool(value)
CallStrToBool ==
    /\ cpc = "start"
    /\ \E value \in StrInputs :
           ret' = [op |-> "str_to_bool", arg |-> value,
                   value |-> str_to_bool(value)]
    /\ cpc' = "returned"
    /\ UNCHANGED << environ, stdout, app_config, validate_calls, svars, hvars, xvars >>

\* validate_required_env_vars(required_vars, config_type)
CallValidate ==
    /\ cpc = "start"
    /\ \E required_vars \in RequiredLists, config_type \in ConfigTypes :
           LET valid == validate_required_env_vars(environ, required_vars,
                                                   config_type)
           IN  /\ ret' = [op |-> "validate_required_env_vars",
                          arg |-> [required_vars |-> required_vars,
                                   config_type |-> config_type],
                          value |-> valid.value]
               /\ stdout' = stdout \o valid.output
    /\ cpc' = "returned"
    /\ UNCHANGED << environ, app_config, validate_calls, svars, hvars, xvars >>

\* app_config = AppConfig.from_env()
LoadAppConfig ==
    /\ cpc = "start"
    /\ app_config' = AppConfig(environ)
    /\ cpc' = "loaded"
    /\ UNCHANGED << environ, stdout, validate_calls, ret, svars, hvars, xvars >>

\* azure_config = AzureOpenAIConfig.from_env(app_config)
CallFromEnv ==
    /\ cpc = "loaded"
    /\ LET made == AzureOpenAIConfig_from_env(environ, app_config)
       IN  /\ ret' = [op |-> "from_env", arg |-> app_config,
                      value |-> made.value, raised |-> made.raised]
           /\ validate_calls' = validate_calls \o made.calls
           /\ stdout' = stdout \o made.output
    /\ cpc' = "returned"
    /\ UNCHANGED << environ, app_config, svars, hvars, xvars >>

NextConfig ==
    \/ CallStrToBool
    \/ CallValidate
    \/ LoadAppConfig
    \/ CallFromEnv

SpecConfig == InitConfig /\ [][NextConfig]_vars

\* ------------------------------------------------------------------------
\* Reference statistics, from the raw moments of a column of scores
\* ------------------------------------------------------------------------
Done == pc = "done"

\* every ScoreSet has the key set of the first one
SameKeys(seq) == \A t \in 1..Len(seq) : DOMAIN seq[t] = DOMAIN seq[1]

\* a call on a non-empty sequence with one key set has returned
Analysed == Done /\ all_scores # << >> /\ SameKeys(all_scores)

Keys == DOMAIN all_scores[1]

Col(m) == [t \in 1..Len(all_scores) |-> all_scores[t][m]]

Rec(m) == result.value[m]

RECURSIVE Total(_, _)
Total(col, k) == IF k = 0 THEN 0 ELSE Total(col, k - 1) + col[k]

\* sum of x^2
RECURSIVE TotalSq(_, _)
TotalSq(col, k) ==
    IF k = 0 THEN << >> ELSE BigAdd(TotalSq(col, k - 1), BigSquare(col[k]))

\* sum of (2i - (N-1)) * x_i over the 0-based index i: 2 N cov(index, score)
RECURSIVE TotalIdx(_, _)
TotalIdx(col, k) ==
    IF k = 0 THEN 0
    ELSE TotalIdx(col, k - 1) + (2 * (k - 1) - (Len(col) - 1)) * col[k]

BigLeq(a, b) == BigCmp(BigTrim(a), BigTrim(b)) <= 0

BigTimes(n, a) == BigMul(BigOf(n), a)

\* r is p / q rounded to the nearest integer (q > 0): |r q - p| <= q / 2
Nearest(r, p, q) == 2 * Abs(r * q - p) <= q

\* N sum(x^2) = N^2 U^2 (variance + mean^2)  and  S^2 = N^2 U^2 mean^2
NSq(col) == BigTimes(Len(col), TotalSq(col, Len(col)))
SSq(col) == BigSquare(Total(col, Len(col)))

\* v is the population variance in 1/Round4Scale, to the nearest unit:
\* (2v - 1) D <= 2 (NSq - SSq) <= (2v + 1) D,  D = N^2 U^2 / Round4Scale
VarianceIs(v, col) ==
    LET D  == BigTimes(Len(col) * Len(col), BigMul(BigOf(ScoreUnit), BigOf(Unit4)))
        S2 == BigAdd(SSq(col), SSq(col))
        N2 == BigAdd(NSq(col), NSq(col))
    IN  /\ v >= 0
        /\ v = 0 \/ BigLeq(BigAdd(BigTimes(2 * v - 1, D), S2), N2)
        /\ BigLeq(N2, BigAdd(BigTimes(2 * v + 1, D), S2))

\* s is sqrt(population variance) in 1/Round4Scale, to the nearest unit:
\* (2s - 1)^2 B <= 4 (NSq - SSq) <= (2s + 1)^2 B,  B = N^2 Unit4^2
StdDevIs(s, col) ==
    LET B  == BigTimes(Len(col) * Len(col), BigSquare(Unit4))
        S4 == BigTimes(4, SSq(col))
        N4 == BigTimes(4, NSq(col))
    IN  /\ s >= 0
        /\ s = 0 \/ BigLeq(BigAdd(BigMul(BigSquare(2 * s - 1), B), S4), N4)
        /\ BigLeq(N4, BigAdd(BigMul(BigSquare(2 * s + 1), B), S4))

\* c is sqrt(variance) / mean in 1/Round4Scale, to the nearest unit (S # 0):
\* (2c - 1)^2 S^2 <= 4 R^2 (NSq - SSq) <= (2c + 1)^2 S^2,  R = Round4Scale
CvIs(c, col) ==
    LET R4 == BigTimes(4, BigSquare(Round4Scale))
        S4 == BigMul(R4, SSq(col))
        N4 == BigMul(R4, NSq(col))
    IN  /\ c >= 0
        /\ c = 0 \/ BigLeq(BigAdd(BigMul(BigSquare(2 * c - 1), SSq(col)), S4), N4)
        /\ BigLeq(N4, BigAdd(BigMul(BigSquare(2 * c + 1), SSq(col)), S4))

\* b is cov(index, score) / var(index) in 1/Round6Scale, to the nearest unit;
\* var(index) of 0..N-1 is (N^2 - 1) / 12, cov is TotalIdx / (2 N)
SlopeIs(b, col) ==
    LET n == Len(col)
    IN  Nearest(b, 6 * TotalIdx(col, n), n * (n * n - 1) * Unit6)

\* ------------------------------------------------------------------------
\* Claims
\* ------------------------------------------------------------------------

\* C1 (as stated): a call with an empty ScoreSequence signals an error and
\* returns no record or default result.
C1_EmptyInputRaises ==
    (Done /\ all_scores = << >>) => result.raised # "none"

\* C1 (amended): a call with an empty ScoreSequence signals no error and
\* returns the empty mapping, which holds no record.
C1_EmptyInputReturnsEmptyMapping ==
    (Done /\ all_scores = << >>) =>
        (result.raised = "none" /\ DOMAIN result.value = {})

C1_Witness == Done /\ all_scores = << >> /\ result.raised = "none"

\* C2 (as stated): mean is the arithmetic mean, variance the population
\* variance, std_dev its square root, and for N >= 2 trend_slope is
\* cov(index, score) / var(index), each exactly.
C2_ExactStatistics ==
    Analysed =>
        \A m \in Keys :
            LET col == Col(m)
                n   == Len(col)
                r   == Rec(m)
            IN  /\ r.mean * n * Unit4 = Total(col, n)
                /\ BigCmp(BigAdd(BigTimes(r.variance,
                                 BigTimes(n * n, BigMul(BigOf(ScoreUnit), BigOf(Unit4)))),
                                 SSq(col)),
                          BigTrim(NSq(col))) = 0
                /\ r.std_dev * r.std_dev = r.variance * Round4Scale
                /\ n >= 2 =>
                     r.trend_slope * n * (n * n - 1) * Unit6 = 6 * TotalIdx(col, n)

\* C2 (amended): mean, population variance (divided by N) and its square
\* root are each stored rounded to 4 decimals, and for N >= 2 trend_slope is
\* cov(index, score) / var(index) over the 0-based indices rounded to 6
\* decimals; std_dev is the root of the unrounded variance.
C2_RoundedStatistics ==
    Analysed =>
        \A m \in Keys :
            LET col == Col(m)
                n   == Len(col)
                r   == Rec(m)
            IN  /\ Nearest(r.mean, Total(col, n), n * Unit4)
                /\ VarianceIs(r.variance, col)
                /\ StdDevIs(r.std_dev, col)
                /\ n >= 2 => SlopeIs(r.trend_slope, col)

C2_Witness ==
    /\ Analysed
    /\ \E m \in Keys : Len(Col(m)) >= 2 /\ Rec(m).variance > 0
                       /\ Rec(m).trend_slope # 0
                       /\ Rec(m).mean * Len(Col(m)) * Unit4 # Total(Col(m), Len(Col(m)))


\* C3 (as stated): coefficient_of_variation is +infinity exactly when the
\* record's mean equals 0.0, and finite otherwise.
C3_InfiniteExactlyWhenRecordMeanZero ==
    Analysed =>
        \A m \in Keys :
            (Rec(m).coefficient_of_variation = Infinity) <=> (Rec(m).mean = 0)

\* C3 (amended): coefficient_of_variation is +infinity exactly when the
\* unrounded mean is 0 (every score of the metric is 0), and otherwise it
\* is the finite std_dev / mean of the unrounded values, rounded to 4
\* decimals; scores [0.0, 0.0, 0.0] give mean 0.0 and +infinity.
C3_InfiniteExactlyWhenRawMeanZero ==
    Analysed =>
        \A m \in Keys :
            LET col == Col(m)
                r   == Rec(m)
            IN  /\ (r.coefficient_of_variation = Infinity)
                       <=> (Total(col, Len(col)) = 0)
                /\ Total(col, Len(col)) # 0 =>
                       CvIs(r.coefficient_of_variation, col)
                /\ col = << 0, 0, 0 >> =>
                       (r.mean = 0 /\ r.coefficient_of_variation = Infinity)

C3_Witness ==
    /\ Analysed
    /\ \E m \in Keys : Col(m) = << 0, 0, 0 >>
                       /\ Rec(m).coefficient_of_variation = Infinity

\* C4 (as stated): the stored score_range equals the stored max_score minus
\* the stored min_score exactly.
C4_RangeIsStoredMaxMinusStoredMin ==
    Analysed =>
        \A m \in Keys : Rec(m).score_range = Rec(m).max_score - Rec(m).min_score

\* C4 (amended): score_range is the difference of the unrounded maximum and
\* minimum rounded to 4 decimals; it differs from the stored max_score
\* minus the stored min_score by at most one unit of the fourth decimal.
C4_RangeIsRoundedRawDifference ==
    Analysed =>
        \A m \in Keys :
            LET col == Col(m)
                r   == Rec(m)
                hi  == CHOOSE x \in {col[i] : i \in DOMAIN col} :
                           \A i \in DOMAIN col : col[i] <= x
                lo  == CHOOSE x \in {col[i] : i \in DOMAIN col} :
                           \A i \in DOMAIN col : col[i] >= x
            IN  /\ Nearest(r.score_range, hi - lo, Unit4)
                /\ Abs(r.score_range - (r.max_score - r.min_score)) <= 1

C4_Witness ==
    /\ Analysed
    /\ \E m \in Keys : Rec(m).score_range # Rec(m).max_score - Rec(m).min_score

StrictlyIncreasing(col) ==
    Len(col) >= 2 /\ \A i \in 1..(Len(col) - 1) : col[i] < col[i + 1]

StrictlyDecreasing(col) ==
    Len(col) >= 2 /\ \A i \in 1..(Len(col) - 1) : col[i] > col[i + 1]

\* every per-turn change is at least 0.000001 in magnitude
StepsAtLeastMicro(col) ==
    \A i \in 1..(Len(col) - 1) : Abs(col[i + 1] - col[i]) >= Unit6

\* C5 (as stated): strictly increasing scores give trend_slope > 0 and
\* strictly decreasing scores give trend_slope < 0, however small the change.
C5_StrictTrendSign ==
    Analysed =>
        \A m \in Keys :
            /\ StrictlyIncreasing(Col(m)) => Rec(m).trend_slope > 0
            /\ StrictlyDecreasing(Col(m)) => Rec(m).trend_slope < 0

\* C5 (amended): strictly increasing scores give trend_slope >= 0 and
\* strictly decreasing scores give trend_slope <= 0; the sign is strict
\* when every per-turn change is at least 0.000001 in magnitude.
C5_TrendSignUpToRounding ==
    Analysed =>
        \A m \in Keys :
            LET col == Col(m)
                b   == Rec(m).trend_slope
            IN  /\ StrictlyIncreasing(col) => b >= 0
                /\ StrictlyDecreasing(col) => b <= 0
                /\ (StrictlyIncreasing(col) /\ StepsAtLeastMicro(col)) => b > 0
                /\ (StrictlyDecreasing(col) /\ StepsAtLeastMicro(col)) => b < 0

C5_Witness ==
    /\ Analysed
    /\ \E m \in Keys : StrictlyIncreasing(Col(m)) /\ Len(Col(m)) >= 3
                       /\ StepsAtLeastMicro(Col(m)) /\ Rec(m).trend_slope > 0

\* C6 (as stated): for one turn, variance, std_dev, trend_slope and
\* score_range are 0 and mean equals the lone score.
C6_SingleTurnExactMean ==
    (Analysed /\ Len(all_scores) = 1) =>
        \A m \in Keys :
            /\ Rec(m).variance = 0 /\ Rec(m).std_dev = 0
            /\ Rec(m).trend_slope = 0 /\ Rec(m).score_range = 0
            /\ Rec(m).mean * Unit4 = all_scores[1][m]

\* C6 (amended): for one turn, variance, std_dev, trend_slope and
\* score_range are 0 and mean is the lone score rounded to 4 decimals.
C6_SingleTurnRoundedMean ==
    (Analysed /\ Len(all_scores) = 1) =>
        \A m \in Keys :
            /\ Rec(m).variance = 0 /\ Rec(m).std_dev = 0
            /\ Rec(m).trend_slope = 0 /\ Rec(m).score_range = 0
            /\ Nearest(Rec(m).mean, all_scores[1][m], Unit4)

C6_Witness ==
    /\ Analysed /\ Len(all_scores) = 1
    /\ \E m \in Keys : all_scores[1][m] = 8333334 /\ Rec(m).mean = 8333

\* C7: a metric with the same score s on every turn has variance 0,
\* trend_slope 0, score_range 0, and coefficient_of_variation 0 when s is
\* non-zero or +infinity when s is 0.
C7_ConstantSequence ==
    Analysed =>
        \A m \in Keys :
            (\A t \in 1..Len(all_scores) : all_scores[t][m] = all_scores[1][m]) =>
                /\ Rec(m).variance = 0
                /\ Rec(m).trend_slope = 0
                /\ Rec(m).score_range = 0
                /\ Rec(m).coefficient_of_variation =
                       IF all_scores[1][m] # 0 THEN 0 ELSE Infinity

C7_Witness ==
    /\ Analysed /\ Len(all_scores) >= 3
    /\ \E m \in Keys :
           /\ \A t \in 1..Len(all_scores) : all_scores[t][m] = 1
           /\ Rec(m).coefficient_of_variation = 0


\* C8 (as stated): scores 0.8, 0.85, 0.75, 0.9, 0.82 give mean 0.824,
\* variance 0.00274, std_dev about 0.0524, CV about 0.0636, min 0.75,
\* max 0.9, range 0.15 and trend_slope about 0.012.
C8_ScenarioAsStated ==
    (Done /\ all_scores = ScenarioA) =>
        LET r == Rec("A")
        IN  /\ r.mean = 8240
            /\ r.variance = 27
            /\ Abs(r.std_dev - 524) <= 1
            /\ Abs(r.coefficient_of_variation - 636) <= 1
            /\ r.min_score = 7500 /\ r.max_score = 9000 /\ r.score_range = 1500
            /\ Abs(r.trend_slope - 12000) <= 500

\* C8 (amended): scores 0.8, 0.85, 0.75, 0.9, 0.82 give mean 0.824,
\* population variance 0.002504 (stored as 0.0025), std_dev 0.05,
\* CV 0.0607, min 0.75, max 0.9, range 0.15 and trend_slope 0.009.
C8_ScenarioValues ==
    (Done /\ all_scores = ScenarioA) =>
        LET r   == Rec("A")
            col == Col("A")
            M   == BigOf(Round6Scale)
        IN  /\ r.mean = 8240
            /\ r.variance = 25
            /\ BigCmp(BigAdd(BigTimes(2504 * 5 * 5, BigSquare(ScoreUnit)),
                             BigMul(M, SSq(col))),
                      BigMul(M, NSq(col))) = 0
            /\ r.std_dev = 500
            /\ r.coefficient_of_variation = 607
            /\ r.min_score = 7500 /\ r.max_score = 9000 /\ r.score_range = 1500
            /\ r.trend_slope = 9000

C8_Witness == Done /\ all_scores = ScenarioA /\ Rec("A").mean = 8240

RecordFields ==
    { "mean", "variance", "std_dev", "coefficient_of_variation",
      "trend_slope", "min_score", "max_score", "score_range" }

\* C9: for a non-empty sequence whose ScoreSets share one key set, the
\* result is a mapping whose key set is the key set of the first ScoreSet,
\* with one record of exactly the eight fields per metric.
C9_OneRecordPerMetric ==
    Analysed =>
        /\ result.raised = "none"
        /\ DOMAIN result.value = DOMAIN all_scores[1]
        /\ \A m \in DOMAIN result.value : DOMAIN result.value[m] = RecordFields

C9_Witness ==
    /\ Analysed /\ result.raised = "none"
    /\ DOMAIN result.value = Metrics
    /\ Len(all_scores) >= 2

\* columns put in place of the other metrics' scores
AltValues == {0, 8333334}
AltColumns(n) ==
    {[t \in 1..n |-> IF t \in T THEN a ELSE b] :
        a \in AltValues, b \in AltValues,
        T \in {1..n, {1}, {t \in 1..n : t % 2 = 1}}}

\* seq with every metric other than m, and one further metric, scoring alt
WithOthers(seq, m, alt) ==
    [t \in 1..Len(seq) |->
        [k \in DOMAIN seq[1] \cup {"ToxicityMetric"} |->
            IF k = m THEN seq[t][m] ELSE alt[t]]]

\* C10: a metric's record depends only on that metric's own scores: a
\* sequence of the same length that agrees on the metric on every turn
\* gives it the same record, whatever the other metrics score; with Bias
\* constant at 0.05 and Relevancy alternating 0.9 / 0.5 over 10 turns,
\* Bias has CV 0 and range 0 and Relevancy has range 0.4.
C10_RecordDependsOnOwnScoresOnly ==
    Analysed =>
        /\ \A m \in Keys :
               \A alt \in AltColumns(Len(all_scores)) :
                   LET other == calculate_stability_metrics(
                                    WithOthers(all_scores, m, alt))
                   IN  other.raised = "none" /\ other.value[m] = Rec(m)
        /\ all_scores = ScenarioBiasRelevancy =>
               /\ Rec("Bias").coefficient_of_variation = 0
               /\ Rec("Bias").score_range = 0
               /\ Rec("Relevancy").score_range = 4000

C10_Witness ==
    /\ Done /\ all_scores = ScenarioBiasRelevancy
    /\ Rec("Bias").score_range = 0
    /\ Rec("Relevancy").score_range = 4000
    /\ Rec("Relevancy").coefficient_of_variation > Rec("Bias").coefficient_of_variation

\* some ScoreSet lacks a metric key of the first ScoreSet
LacksKey(seq) ==
    \E t \in 1..Len(seq) : \E m \in DOMAIN seq[1] : m \notin DOMAIN seq[t]

\* C13: the call never returns a partial mapping: on a non-empty sequence
\* in which some ScoreSet lacks a key of the first one it raises KeyError
\* and returns nothing, and otherwise it returns one complete record for
\* every metric of the first ScoreSet; no default score stands in for a
\* missing one.
C13_CompleteOrRaises ==
    (Done /\ all_scores # << >>) =>
        IF LacksKey(all_scores)
        THEN result.raised = "KeyError" /\ result.value = EmptyMap
        ELSE /\ result.raised = "none"
             /\ DOMAIN result.value = DOMAIN all_scores[1]
             /\ \A m \in DOMAIN result.value :
                    DOMAIN result.value[m] = RecordFields

C13_Witness ==
    /\ Done /\ Len(all_scores) = 2
    /\ DOMAIN all_scores[1] = Metrics
    /\ DOMAIN all_scores[2] = {"BiasMetric"}
    /\ result.raised = "KeyError" /\ result.value = EmptyMap

\* C12: the call changes nothing but its own result: the input sequence
\* and every ScoreSet in it, the fields of the test instance
\* (results_table, the turns), the counters and the labels that the
\* loggers keep, and the state of config.py are the same after the call
\* as before it.
C12_CalculateChangesOnlyItsResult ==
    [][(pc = "ready" /\ pc' = "done") =>
           /\ all_scores' = all_scores
           /\ hvars' = hvars
           /\ cvars' = cvars]_vars

C12_Witness ==
    /\ pc = "done" /\ result.raised = "none"
    /\ Len(all_scores) = chain_length /\ chain_length >= LongChain
    /\ turn_counter = chain_length
    /\ error_counter > 0

\* the six names under which the configured metrics report
ConfiguredMetrics ==
    { "AnswerRelevancyMetric", "FaithfulnessMetric", "Mathematical_Accuracy",
      "Technical_Depth", "BiasMetric", "ToxicityMetric" }

\* the evaluation of metric m raises on turn t
Fails(m, t) == measure(oracle, m, t, chain_length).kind = "raises"

\* number of pairs (turn, metric) that failed during the first k turns
RECURSIVE FailuresUpTo(_)
FailuresUpTo(k) ==
    IF k = 0 THEN 0
    ELSE FailuresUpTo(k - 1) + Cardinality({m \in ConfiguredMetrics : Fails(m, k)})

C15_BuiltTurnByTurnThenAnalysed ==
    /\ [](/\ Len(all_scores) = turn_index
          /\ Len(conversation_turns) = turn_index
          /\ turn_index <= chain_length
          /\ \A k \in 1..Len(conversation_turns) :
                 /\ conversation_turns[k].turn_number = k
                 /\ conversation_turns[k].metrics_scores = all_scores[k]
                 /\ \A m \in DOMAIN all_scores[k] :
                        all_scores[k][m] =
                            IF Fails(m, k) THEN 0
                            ELSE measure(oracle, m, k, chain_length).score)
    /\ [][/\ Len(all_scores') \in {Len(all_scores), Len(all_scores) + 1}
          /\ \A k \in 1..Len(all_scores) : all_scores'[k] = all_scores[k]
          /\ (pc = "ready" /\ pc' = "done") =>
                 /\ Len(all_scores) = chain_length
                 /\ Len(conversation_turns) = chain_length]_vars

C15_Witness ==
    /\ pc = "done" /\ chain_length = 20
    /\ Len(all_scores) = 20 /\ Len(conversation_turns) = 20
    /\ conversation_turns[20].turn_number = 20
    /\ result.raised = "none"

\* the raw CV of col is below p / q:  q^2 (NSq - SSq) < p^2 SSq, mean # 0
RawCvBelow(col, p, q) ==
    /\ Total(col, Len(col)) # 0
    /\ ~BigLeq(BigMul(BigAdd(BigSquare(p), BigSquare(q)), SSq(col)),
               BigMul(BigSquare(q), NSq(col)))

\* the raw range of col is below limit / ScoreUnit
RawRangeBelow(col, limit) ==
    \A j, k \in 1..Len(col) : col[j] - col[k] < limit

\* C16 (as stated): the stable / variable label and the verdict of the
\* assertions are those of the raw statistics: raw CV < 0.25, and raw
\* CV < 2.0 (chains of 10 turns or more) and raw range < 0.8 (all metrics
\* but BiasMetric and ToxicityMetric).
C16_VerdictsOfRawStatistics ==
    pc = "finished" =>
        /\ \A m \in Keys :
               stability_status[m] = "stable" <=> RawCvBelow(Col(m), 1, 4)
        /\ outcome = "passed" <=>
               \A m \in Keys :
                   /\ chain_length >= 10 => RawCvBelow(Col(m), 2, 1)
                   /\ m \notin {"BiasMetric", "ToxicityMetric"} =>
                          RawRangeBelow(Col(m), 8000000)

\* C16 (amended): the label and the assertions compare the statistics of
\* the record, rounded to 4 decimals.  A verdict of stable or passed is
\* then also the verdict of the raw statistic, and a raw statistic more
\* than 0.00005 below its threshold is never reported as failing; a raw
\* statistic within 0.00005 below the threshold is.
C16_VerdictsOfRoundedStatistics ==
    pc = "finished" =>
        /\ \A m \in Keys :
               /\ stability_status[m] = "stable" <=>
                      Rec(m).coefficient_of_variation < 2500
               /\ stability_status[m] = "stable" => RawCvBelow(Col(m), 1, 4)
               /\ RawCvBelow(Col(m), 4999, 20000) =>
                      stability_status[m] = "stable"
        /\ outcome = "passed" <=>
               \A m \in Keys :
                   /\ chain_length >= 10 =>
                          Rec(m).coefficient_of_variation < 20000
                   /\ m \notin {"BiasMetric", "ToxicityMetric"} =>
                          Rec(m).score_range < 8000
        /\ outcome = "passed" =>
               \A m \in Keys :
                   /\ chain_length >= 10 => RawCvBelow(Col(m), 2, 1)
                   /\ m \notin {"BiasMetric", "ToxicityMetric"} =>
                          RawRangeBelow(Col(m), 8000000)
        /\ (\A m \in Keys :
                /\ chain_length >= 10 => RawCvBelow(Col(m), 39999, 20000)
                /\ m \notin {"BiasMetric", "ToxicityMetric"} =>
                       RawRangeBelow(Col(m), 7999500))
               => outcome = "passed"

\* raw CV 0.24996 is labelled variable and raw range 0.79996 fails
C16_Witness ==
    /\ pc = "finished" /\ chain_length = 10
    /\ RawCvBelow(Col("AnswerRelevancyMetric"), 1, 4)
    /\ Rec("AnswerRelevancyMetric").coefficient_of_variation = 2500
    /\ stability_status["AnswerRelevancyMetric"] = "variable"
    /\ outcome = "passed"

\* every turn gave the metric the same score
ConstantColumn(col) == \A j, k \in 1..Len(col) : col[j] = col[k]

\* C17 (as stated): a metric that scores the same on every turn, 0.0
\* included, is labelled stable and passes the CV assertion for every
\* chain length; a chain whose metrics all score so passes.
C17_ConstantMetricIsStable ==
    pc = "finished" =>
        /\ \A m \in Keys :
               ConstantColumn(Col(m)) =>
                   /\ stability_status[m] = "stable"
                   /\ Rec(m).coefficient_of_variation < 20000
        /\ (\A m \in Keys : ConstantColumn(Col(m))) => outcome = "passed"

\* ('true', '1', 'yes', 'on')
TrueWords ==
    { << "t", "r", "u", "e" >>, << "1" >>, << "y", "e", "s" >>, << "o", "n" >> }

\* C18: str_to_bool returns True exactly for the strings that are 'true',
\* '1', 'yes' or 'on' up to the case of their letters, and False for
\* every other string.
C18_TrueExactlyForTrueWords ==
    (cpc = "returned" /\ ret.op = "str_to_bool") =>
        ret.value = (ret.arg \in UNION {CaseVariants(w) : w \in TrueWords})

C18_Witness ==
    /\ cpc = "returned" /\ ret.op = "str_to_bool"
    /\ ret.arg = << "Y", "e", "S" >>
    /\ ret.value = TRUE

\* positions of required_vars whose variable is unset or empty in env
MissingAt(env, required_vars) ==
    {k \in 1..Len(required_vars) :
        \/ required_vars[k] \notin DOMAIN env
        \/ env[required_vars[k]] = << >>}

\* C19: validate_required_env_vars returns True exactly when every
\* required variable is set to a non-empty value and False when at least
\* one is not; it reports (a header naming the configuration, one line
\* per missing variable, two hints) only when it returns False; and no
\* step changes the environment.
C19_TrueIffAllSet ==
    /\ []((cpc = "returned" /\ ret.op = "validate_required_env_vars") =>
            LET missing == MissingAt(environ, ret.arg.required_vars)
            IN  /\ ret.value = (missing = {})
                /\ ret.value <=> stdout = << >>
                /\ ~ret.value =>
                       /\ Len(stdout) = Cardinality(missing) + 3
                       /\ stdout[1] = [text |-> "missing_header",
                                       arg |-> ret.arg.config_type]
                       /\ \A k \in missing :
                              \E j \in 2..(Len(stdout) - 2) :
                                  stdout[j] = [text |-> "missing_var",
                                               arg |-> ret.arg.required_vars[k]])
    /\ [][environ' = environ]_vars

C19_Witness ==
    /\ cpc = "returned" /\ ret.op = "validate_required_env_vars"
    /\ ret.arg.required_vars = << "AZURE_OPENAI_API_KEY", "AZURE_OPENAI_ENDPOINT" >>
    /\ "AZURE_OPENAI_API_KEY" \in DOMAIN environ
    /\ environ["AZURE_OPENAI_API_KEY"] = << >>
    /\ ~ret.value
    /\ Len(stdout) = 4

\* C20: from_env returns an instance and never raises, whatever the
\* environment holds; it calls validate_required_env_vars exactly once,
\* with [AZURE_OPENAI_API_KEY, AZURE_OPENAI_ENDPOINT] and "Azure OpenAI",
\* when use_ollama is false, and not at all when use_ollama is true.
C20_FromEnvValidatesOnlyWithoutOllama ==
    (cpc = "returned" /\ ret.op = "from_env") =>
        /\ ret.raised = "none"
        /\ DOMAIN ret.value = {"api_key", "endpoint"}
        /\ validate_calls =
               IF ret.arg.use_ollama THEN << >>
               ELSE << [ required_vars |-> << "AZURE_OPENAI_API_KEY",
                                               "AZURE_OPENAI_ENDPOINT" >>,
                         config_type |-> "Azure OpenAI" ] >>

C20_Witness ==
    /\ cpc = "returned" /\ ret.op = "from_env"
    /\ "AZURE_OPENAI_API_KEY" \notin DOMAIN environ
    /\ ~ret.arg.use_ollama
    /\ Len(validate_calls) = 1
    /\ ret.raised = "none"


\* C21: a dynamic run of chain_length N >= 1 generates exactly N turns, the
\* first asking the topic's starter; once every turn is evaluated exactly
\* N - 1 of them are flagged generated_from_previous, all but the first
C21_AllButFirstTurnGenerated ==
    /\ Len(conversation_data) = chain_length
    /\ \A k \in 1..Len(conversation_data) :
           (conversation_data[k].question = "starter") <=> (k = 1)
    /\ \A k \in 1..Len(conversation_turns) :
           conversation_turns[k].generated_from_previous <=> (k # 1)
    /\ pc # "loop" =>
           /\ Len(conversation_turns) = chain_length
           /\ GeneratedTurns(conversation_turns) = chain_length - 1

C21_Witness ==
    /\ pc = "finished"
    /\ chain_length = 10
    /\ Len(conversation_turns) = 10
    /\ GeneratedTurns(conversation_turns) = 9
    /\ ~conversation_turns[1].generated_from_previous


\* C22 (as stated): when test_cross_chain_consistency runs after chain
\* tests of two or more lengths have stored their results, results_table
\* holds one entry per evaluated chain length and the consistency analysis
\* is performed, not skipped.
C22_CrossChainAnalysesStoredResults ==
    LET stored == {k \in 1..Len(reports) : reports[k].stored > 0}
    IN  (tpc = "done" /\ Cardinality(stored) >= 2) =>
            /\ Len(results_table) = Cardinality(stored)
            /\ cross_outcome # "skipped"


\* the literal fragments that end in an invocation of make
MakeCalls == {Lit("make "), Lit(" && make ")}

\* the Docker check succeeds on the host
DockerUp == host.docker \in {"lib_up", "socket", "cli_ok"}

\* the commands of the request that start docker-compose with a profile
ComposeRuns ==
    {k \in 1..Len(shell) : shell[k][1] = Lit("docker-compose --profile ")}

C24_ComposeOnlyForValidProfileOnRunningDocker ==
    (request.endpoint = "start_lab" /\ wpc = "responded") =>
        /\ \A k \in ComposeRuns :
               /\ request.profile \in valid_profiles \ {"demo"}
               /\ DockerUp
               /\ shell[k] = << Lit("docker-compose --profile "),
                                Req(profile_map[request.profile], "profile",
                                    request.profile),
                                Lit(" up -d") >>
        /\ request.profile \notin valid_profiles =>
               response = HTTPException(400) /\ ComposeRuns = {}
        /\ request.profile = "demo" =>
               response = Reply("success", "none") /\ ComposeRuns = {}
        /\ (request.profile \in valid_profiles \ {"demo"} /\ ~DockerUp) =>
               /\ response.code = 200
               /\ response.status \in {"error", "warning"}
               /\ ComposeRuns = {}

C24_Witness ==
    /\ request.endpoint = "start_lab"
    /\ wpc = "responded"
    /\ request.profile = "full"
    /\ host.docker = "cli_ok"
    /\ Len(shell) = 2
    /\ shell[2][2].text = "all"
    /\ response = Reply("success", "none")

\* C29 (as stated): every caller-supplied string interpolated into a
\* command given to run_command (profile, test type, make target, run_time,
\* service name) has been checked against a fixed allow-list before.
C29_OnlyAllowListedTextReachesShell ==
    wpc = "responded" =>
        \A k \in 1..Len(shell) : \A i \in 1..Len(shell[k]) :
            shell[k][i].origin \in StrFields =>
                shell[k][i].value \in AllowList(shell[k][i].origin)

\* the connections listed when the broadcast began that were CONNECTED
\* with a working transport
Healthy(c) == Sends(sockets[c])

\* C25: when broadcast returns and no handler has run meanwhile,
\* active_connections holds exactly the connections registered before that
\* were CONNECTED and whose send succeeded, in their order: the others are
\* removed, no healthy one is, and every healthy one got the message once
\* whatever failed before it in the list.
C25_BroadcastKeepsExactlyTheHealthy ==
    (broadcast.pc = "returned" /\ audit.events = {}) =>
        /\ active_connections = SelectSeq(audit.started, Healthy)
        /\ \A c \in Clients :
               audit.delivered[c] =
                   IF c \in Elems(audit.started) /\ Healthy(c) THEN 1 ELSE 0

C25_Witness ==
    /\ broadcast.pc = "returned"
    /\ audit.events = {}
    /\ Len(audit.started) = 2
    /\ ~Healthy(audit.started[1])
    /\ Healthy(audit.started[2])
    /\ active_connections = << audit.started[2] >>
    /\ audit.delivered[audit.started[2]] = 1

\* C26 (as stated): whatever the /ws handlers do while a broadcast is
\* suspended at a send, every connection that stays registered and
\* CONNECTED for the whole broadcast gets the message exactly once.
C26_SteadyListenersGetTheMessageOnce ==
    broadcast.pc = "returned" =>
        \A c \in Elems(audit.started) :
            (c \notin audit.events /\ Healthy(c)) => audit.delivered[c] = 1

\* the place of a status in starting, running, stopping, stopped
Rank(status) ==
    IF status = "starting" THEN 0
    ELSE IF status = "running" THEN 1
    ELSE IF status = "stopping" THEN 2
    ELSE 3

\* C27 (as stated): app_status only moves forward through starting,
\* running, stopping, stopped; once start_server has set it to 'stopping'
\* or 'stopped' no step of the updater thread sets it back to 'running'.
C27_StatusOnlyMovesForward ==
    [][Rank(app_status) <= Rank(app_status')]_vars

\* what the use that has just ended added to TEST_COUNTER under its own
\* labels and the given status, and to ERROR_COUNTER under the component
\* test_execution and the given error type
TestDelta(status) ==
    LET labels == << use.test_type, chain_label(use.chain_length), status >>
    IN  metrics.TEST_COUNTER[labels] - use.before.TEST_COUNTER[labels]

ErrorDelta(error_type) ==
    LET labels == << error_type, "test_execution" >>
    IN  IF labels \in ErrorLabels
        THEN metrics.ERROR_COUNTER[labels] - use.before.ERROR_COUNTER[labels]
        ELSE 0

\* no TEST_COUNTER series but those of the use's own labels has moved
OtherSeriesUntouched ==
    \A l \in TestLabels :
        (l[1] # use.test_type \/ l[2] # chain_label(use.chain_length)) =>
            metrics.TEST_COUNTER[l] = use.before.TEST_COUNTER[l]

\* C28 (as stated): each use of log_test_execution increments TEST_COUNTER
\* exactly once: as 'success' when the body returns, as 'failed' when the
\* body raises, and then ERROR_COUNTER (component test_execution) is
\* incremented too and the body's exception reaches the caller; a use
\* whose body raised is never counted as a success.
C28_EveryUseCountedOnce ==
    lpc = "left" =>
        /\ TestDelta("success") + TestDelta("failed") = 1
        /\ use.body = "returns" => TestDelta("success") = 1
        /\ use.body # "returns" =>
               /\ TestDelta("failed") = 1
               /\ TestDelta("success") = 0
               /\ ErrorDelta(use.body) = 1
               /\ use.raised = use.body

\* C28 (amended): a use whose body returns counts once as 'success'; a use
\* whose body raises an Exception counts once as 'failed', increments
\* ERROR_COUNTER (component test_execution) and re-raises it; a use whose
\* body raises a BaseException that is not an Exception, KeyboardInterrupt
\* for one, is not counted at all and the exception reaches the caller; no
\* use whose body raised is counted as a success.
C28_CountedOnceUnlessBaseException ==
    lpc = "left" =>
        /\ OtherSeriesUntouched
        /\ use.body = "returns" =>
               /\ TestDelta("success") = 1
               /\ TestDelta("failed") = 0
               /\ use.raised = "none"
        /\ use.body \in Exceptions =>
               /\ TestDelta("failed") = 1
               /\ TestDelta("success") = 0
               /\ ErrorDelta(use.body) = 1
               /\ use.raised = use.body
        /\ use.body \in BaseOnly =>
               /\ TestDelta("failed") = 0
               /\ TestDelta("success") = 0
               /\ \A e \in Exceptions \cup {"unknown"} : ErrorDelta(e) = 0
               /\ use.raised = use.body

C28_Witness ==
    /\ lpc = "left"
    /\ uses = 2
    /\ use.body = "AssertionError"
    /\ use.raised = "AssertionError"
    /\ TestDelta("failed") = 1
    /\ metrics.TEST_COUNTER[<< use.test_type, chain_label(use.chain_length),
                               "success" >>] = 1

\* ------------------------------------------------------------------------
\* C30: for every non-empty ScoreSequence and every metric, the returned
\* record has min_score <= mean <= max_score, variance >= 0, std_dev >= 0
\* and score_range >= 0, all of them as stored, after rounding.
\* ------------------------------------------------------------------------
C30_MeanBetweenExtremes ==
    (pc = "done" /\ all_scores # << >> /\ result.raised = "none") =>
        \A m \in DOMAIN result.value :
            /\ result.value[m].min_score <= result.value[m].mean
            /\ result.value[m].mean <= result.value[m].max_score
            /\ result.value[m].variance >= 0
            /\ result.value[m].std_dev >= 0
            /\ result.value[m].score_range >= 0

====
